---- MODULE Spec2Model ----
(***************************************************************************)
(* Model of the filename classification engine of backend/server.py:       *)
(* FileAnalyzer's seven ordered pattern tables, analyze_filename and its   *)
(* two extraction helpers.  A filename is a sequence of one-character      *)
(* strings; every regular expression of the source is modelled by what     *)
(* re.search does with it on such a sequence.                              *)
(***************************************************************************)
EXTENDS Integers, Sequences, FiniteSets, TLC

VARIABLES filename, result, pc, file_info, response,
          program, analyses, sent, clock,
          patterns, calls,
          messages, webhook

\* what one request works on
request == <<filename, result, pc, file_info, response>>

\* the program that runs, its analyses collection, the replies it has sent
\* and the number of messages it has handled
service == <<program, analyses, sent, clock>>

\* the pattern dictionaries of the module-level analyzer, and the frames of
\* the calls of analyze_filename that run interleaved
shared == <<patterns, calls>>

\* the messages collection of the webhook server, and the process and the
\* HTTP request of its webhook endpoint
endpoint == <<messages, webhook>>

vars == <<filename, result, pc, file_info, response,
          program, analyses, sent, clock, patterns, calls,
          messages, webhook>>

(***************************************************************************)
(* Characters.                                                             *)
(***************************************************************************)
LowerLetters ==
  <<"a", "b", "c", "d", "e", "f", "g", "h", "i", "j", "k", "l", "m",
    "n", "o", "p", "q", "r", "s", "t", "u", "v", "w", "x", "y", "z">>

UpperLetters ==
  <<"A", "B", "C", "D", "E", "F", "G", "H", "I", "J", "K", "L", "M",
    "N", "O", "P", "Q", "R", "S", "T", "U", "V", "W", "X", "Y", "Z">>

\* \d of the re module, on the characters the model uses
Digits == {"0", "1", "2", "3", "4", "5", "6", "7", "8", "9"}

\* two letters outside ASCII whose upper case is an ASCII letter: the long s
\* (U+017F, upper case "S") and the dotless i (U+0131, upper case "I")
LongS == "(long s)"

DotlessI == "(dotless i)"

\* \w of the re module on str: letters, digits and the underscore
WordChars ==
  {LowerLetters[i] : i \in 1..26} \cup {UpperLetters[i] : i \in 1..26}
    \cup Digits \cup {"_"} \cup {LongS, DotlessI}

IsDigit(c) == c \in Digits

IsWordChar(c) == c \in WordChars

\* the unescaped "." of a pattern: any character but a newline
Dot == "ANY"

\* the characters filenames are written in: ASCII letters, the two letters
\* above, digits, the underscore, three separators and the newline
Alphabet == WordChars \cup {".", "-", " ", "\n"}

\* str.lower() on one character: A-Z go to a-z, the rest stays (the long s
\* and the dotless i are lower-case letters already)
ToLower ==
  [c \in Alphabet |->
    IF \E i \in 1..26 : UpperLetters[i] = c
      THEN LowerLetters[CHOOSE i \in 1..26 : UpperLetters[i] = c]
      ELSE c]

lower_char(c) == ToLower[c]

\* a filename matched as it is written
lower_none(s) == s

\* str.lower()
lower(s) == [i \in 1..Len(s) |-> lower_char(s[i])]

\* str.upper() on one character
upper_char(c) ==
  IF c = LongS THEN "S"
  ELSE IF c = DotlessI THEN "I"
  ELSE IF \E i \in 1..26 : LowerLetters[i] = c
    THEN UpperLetters[CHOOSE i \in 1..26 : LowerLetters[i] = c]
  ELSE c

\* the character a pattern compiled with re.IGNORECASE compares: the re
\* module lets "s" match the long s and "i" match the dotless i
ignore_case_char(c) ==
  IF c = LongS THEN "s" ELSE IF c = DotlessI THEN "i" ELSE c

\* a lower-cased string as a lower-case pattern with re.IGNORECASE sees it
ignore_case(s) == [i \in 1..Len(s) |-> ignore_case_char(s[i])]

(***************************************************************************)
(* re.search on the pattern shapes the source uses.  Positions are 1-based;*)
(* position i is the gap before s[i], Len(s)+1 the end of the string.      *)
(***************************************************************************)
\* \b at position i: exactly one side is a word character
WordBoundary(s, i) ==
  LET before == i > 1 /\ IsWordChar(s[i - 1])
      after == i <= Len(s) /\ IsWordChar(s[i])
  IN  before # after

\* $ at position i: the end of the string, or just before a final newline
AtEnd(s, i) ==
  \/ i = Len(s) + 1
  \/ i = Len(s) /\ s[i] = "\n"

\* one pattern element against one character
ElemMatches(p, c) == IF p = Dot THEN c # "\n" ELSE p = c

\* the literal (with Dot wildcards) lit matches s from position i on
LitAt(s, i, lit) ==
  /\ i >= 1
  /\ i + Len(lit) - 1 <= Len(s)
  /\ \A k \in 1..Len(lit) : ElemMatches(lit[k], s[i + k - 1])

\* re.search(r'\b(a1|a2|...)(?!n1|n2|...)\b', s)
WordSearch(alts, neg, s) ==
  \E i \in 1..Len(s) : \E a \in alts :
    /\ WordBoundary(s, i)
    /\ LitAt(s, i, a)
    /\ \A n \in neg : ~LitAt(s, i + Len(a), n)
    /\ WordBoundary(s, i + Len(a))

\* re.search(r'(a1|a2|...)$', s)
SuffixSearch(alts, s) ==
  \E i \in 1..Len(s) : \E a \in alts :
    LitAt(s, i, a) /\ AtEnd(s, i + Len(a))

(***************************************************************************)
(* The pattern tables, in the order of the dictionaries of __init__.       *)
(***************************************************************************)
Rule(label, kind, alts, neg) ==
  [label |-> label, kind |-> kind, alts |-> alts, neg |-> neg]

format_patterns ==
  <<
    Rule("MKV", "suffix", {<<".", "m", "k", "v">>}, {}),
    Rule("MP4", "suffix", {<<".", "m", "p", "4">>}, {}),
    Rule("AVI", "suffix", {<<".", "a", "v", "i">>}, {}),
    Rule("WMV", "suffix", {<<".", "w", "m", "v">>}, {}),
    Rule("FLV", "suffix", {<<".", "f", "l", "v">>}, {}),
    Rule("MOV", "suffix", {<<".", "m", "o", "v">>}, {}),
    Rule("M4V", "suffix", {<<".", "m", "4", "v">>}, {}),
    Rule("WebM", "suffix", {<<".", "w", "e", "b", "m">>}, {}),
    Rule("OGV", "suffix", {<<".", "o", "g", "v">>}, {}),
    Rule("MTS", "suffix", {<<".", "m", "t", "s">>}, {}),
    Rule("M2TS", "suffix", {<<".", "m", "2", "t", "s">>}, {}),
    Rule("TS", "suffix", {<<".", "t", "s">>}, {}),
    Rule("MPG", "suffix", {<<".", "m", "p", "g">>, <<".", "m", "p", "e", "g">>}, {}),
    Rule("VOB", "suffix", {<<".", "v", "o", "b">>}, {}),
    Rule("ASF", "suffix", {<<".", "a", "s", "f">>}, {}),
    Rule("3GP", "suffix", {<<".", "3", "g", "p">>}, {})
  >>

quality_patterns ==
  <<
    Rule("CAM", "word", {<<"c", "a", "m">>, <<"c", "a", "m", "r", "i", "p">>, <<"c", "a", "m", "-", "r", "i", "p">>}, {}),
    Rule("CAMRip", "word", {<<"c", "a", "m", "r", "i", "p">>, <<"c", "a", "m", "-", "r", "i", "p">>}, {}),
    Rule("TS", "word", {<<"t", "s">>, <<"t", "e", "l", "e", "s", "y", "n", "c">>, <<"t", "e", "l", "e", "-", "s", "y", "n", "c">>}, {}),
    Rule("TC", "word", {<<"t", "c">>, <<"t", "e", "l", "e", "c", "i", "n", "e">>, <<"t", "e", "l", "e", "-", "c", "i", "n", "e">>}, {}),
    Rule("WP", "word", {<<"w", "p">>, <<"w", "o", "r", "k", "p", "r", "i", "n", "t">>, <<"w", "o", "r", "k", "-", "p", "r", "i", "n", "t">>}, {}),
    Rule("DVDScr", "word", {<<"d", "v", "d", "s", "c", "r">>, <<"d", "v", "d", "-", "s", "c", "r">>, <<"d", "v", "d", "s", "c", "r", "e", "e", "n", "e", "r">>}, {}),
    Rule("R5", "word", {<<"r", "5">>}, {}),
    Rule("DVDRip", "word", {<<"d", "v", "d", "r", "i", "p">>, <<"d", "v", "d", "-", "r", "i", "p">>}, {}),
    Rule("BDRip", "word", {<<"b", "d", "r", "i", "p">>, <<"b", "d", "-", "r", "i", "p">>, <<"b", "l", "u", "r", "a", "y", "-", "r", "i", "p">>}, {}),
    Rule("BRRip", "word", {<<"b", "r", "r", "i", "p">>, <<"b", "r", "-", "r", "i", "p">>}, {}),
    Rule("HDRip", "word", {<<"h", "d", "r", "i", "p">>, <<"h", "d", "-", "r", "i", "p">>}, {}),
    Rule("HDTV", "word", {<<"h", "d", "t", "v">>, <<"h", "d", "-", "t", "v">>}, {}),
    Rule("PDTV", "word", {<<"p", "d", "t", "v">>, <<"p", "d", "-", "t", "v">>}, {}),
    Rule("DSRip", "word", {<<"d", "s", "r", "i", "p">>, <<"d", "s", "-", "r", "i", "p">>}, {}),
    Rule("WEB-DL", "word", {<<"w", "e", "b", "-", "d", "l">>, <<"w", "e", "b", "d", "l">>, <<"w", "e", "b", ".", "d", "l">>}, {}),
    Rule("WEBRip", "word", {<<"w", "e", "b", "r", "i", "p">>, <<"w", "e", "b", "-", "r", "i", "p">>, <<"w", "e", "b", ".", "r", "i", "p">>}, {}),
    Rule("WEB", "word", {<<"w", "e", "b">>}, {<<"r", "i", "p">>, <<"d", "l">>}),
    Rule("BluRay", "word", {<<"b", "l", "u", "r", "a", "y">>, <<"b", "l", "u", "-", "r", "a", "y">>, <<"b", "d", "r", "i", "p">>, <<"b", "d", "r", "e", "m", "u", "x">>}, {}),
    Rule("UHD", "word", {<<"u", "h", "d">>, <<"u", "l", "t", "r", "a", ".", "h", "d">>, <<"4", "k", ".", "u", "h", "d">>}, {}),
    Rule("REMUX", "word", {<<"r", "e", "m", "u", "x">>, <<"r", "e", "-", "m", "u", "x">>}, {}),
    Rule("REPACK", "word", {<<"r", "e", "p", "a", "c", "k">>, <<"r", "e", "-", "p", "a", "c", "k">>}, {}),
    Rule("PROPER", "word", {<<"p", "r", "o", "p", "e", "r">>}, {}),
    Rule("REAL", "word", {<<"r", "e", "a", "l">>}, {}),
    Rule("RETAIL", "word", {<<"r", "e", "t", "a", "i", "l">>}, {}),
    Rule("UNCUT", "word", {<<"u", "n", "c", "u", "t">>}, {}),
    Rule("EXTENDED", "word", {<<"e", "x", "t", "e", "n", "d", "e", "d">>, <<"e", "x", "t">>}, {}),
    Rule("REMASTERED", "word", {<<"r", "e", "m", "a", "s", "t", "e", "r", "e", "d">>, <<"r", "e", "m", "a", "s", "t", "e", "r">>}, {})
  >>

resolution_patterns ==
  <<
    Rule("4K", "word", {<<"4", "k">>, <<"2", "1", "6", "0", "p">>, <<"u", "h", "d">>, <<"u", "l", "t", "r", "a", ".", "h", "d">>}, {}),
    Rule("2K", "word", {<<"2", "k">>, <<"1", "4", "4", "0", "p">>}, {}),
    Rule("1080p", "word", {<<"1", "0", "8", "0", "p">>, <<"1", "0", "8", "0", "i">>, <<"f", "u", "l", "l", ".", "h", "d">>, <<"f", "u", "l", "l", "h", "d">>}, {}),
    Rule("720p", "word", {<<"7", "2", "0", "p">>, <<"7", "2", "0", "i">>, <<"h", "d">>}, {}),
    Rule("576p", "word", {<<"5", "7", "6", "p">>, <<"5", "7", "6", "i">>}, {}),
    Rule("480p", "word", {<<"4", "8", "0", "p">>, <<"4", "8", "0", "i">>, <<"s", "d">>}, {}),
    Rule("360p", "word", {<<"3", "6", "0", "p">>}, {}),
    Rule("240p", "word", {<<"2", "4", "0", "p">>}, {})
  >>

video_codec_patterns ==
  <<
    Rule("H.264", "word", {<<"h", ".", "2", "6", "4">>, <<"h", "2", "6", "4">>, <<"x", "2", "6", "4">>, <<"a", "v", "c">>}, {}),
    Rule("H.265", "word", {<<"h", ".", "2", "6", "5">>, <<"h", "2", "6", "5">>, <<"x", "2", "6", "5">>, <<"h", "e", "v", "c">>}, {}),
    Rule("VP9", "word", {<<"v", "p", "9">>}, {}),
    Rule("VP8", "word", {<<"v", "p", "8">>}, {}),
    Rule("XviD", "word", {<<"x", "v", "i", "d">>}, {}),
    Rule("DivX", "word", {<<"d", "i", "v", "x">>}, {}),
    Rule("AV1", "word", {<<"a", "v", "1">>}, {})
  >>

audio_codec_patterns ==
  <<
    Rule("AAC", "word", {<<"a", "a", "c">>}, {}),
    Rule("AC3", "word", {<<"a", "c", "3">>, <<"a", "c", "-", "3">>}, {}),
    Rule("DTS", "word", {<<"d", "t", "s">>, <<"d", "t", "s", "-", "h", "d">>}, {}),
    Rule("MP3", "word", {<<"m", "p", "3">>}, {}),
    Rule("FLAC", "word", {<<"f", "l", "a", "c">>}, {}),
    Rule("OGG", "word", {<<"o", "g", "g">>}, {}),
    Rule("Opus", "word", {<<"o", "p", "u", "s">>}, {}),
    Rule("EAC3", "word", {<<"e", "a", "c", "3">>, <<"e", "a", "c", "-", "3">>, <<"e", "-", "a", "c", "-", "3">>}, {})
  >>

language_patterns ==
  <<
    Rule("English", "word", {<<"e", "n", "g">>, <<"e", "n", "g", "l", "i", "s", "h">>, <<"e", "n">>}, {}),
    Rule("Hindi", "word", {<<"h", "i", "n">>, <<"h", "i", "n", "d", "i">>, <<"h", "i">>}, {}),
    Rule("Spanish", "word", {<<"s", "p", "a">>, <<"s", "p", "a", "n", "i", "s", "h">>, <<"e", "s">>}, {}),
    Rule("French", "word", {<<"f", "r", "e">>, <<"f", "r", "e", "n", "c", "h">>, <<"f", "r">>}, {}),
    Rule("German", "word", {<<"g", "e", "r">>, <<"g", "e", "r", "m", "a", "n">>, <<"d", "e">>}, {}),
    Rule("Italian", "word", {<<"i", "t", "a">>, <<"i", "t", "a", "l", "i", "a", "n">>, <<"i", "t">>}, {}),
    Rule("Japanese", "word", {<<"j", "p", "n">>, <<"j", "a", "p", "a", "n", "e", "s", "e">>, <<"j", "a">>}, {}),
    Rule("Korean", "word", {<<"k", "o", "r">>, <<"k", "o", "r", "e", "a", "n">>, <<"k", "o">>}, {}),
    Rule("Chinese", "word", {<<"c", "h", "i">>, <<"c", "h", "i", "n", "e", "s", "e">>, <<"z", "h">>}, {}),
    Rule("Russian", "word", {<<"r", "u", "s">>, <<"r", "u", "s", "s", "i", "a", "n">>, <<"r", "u">>}, {})
  >>

source_patterns ==
  <<
    Rule("Netflix", "word", {<<"n", "e", "t", "f", "l", "i", "x">>, <<"n", "f">>}, {}),
    Rule("Amazon Prime", "word", {<<"a", "m", "z", "n">>, <<"a", "m", "a", "z", "o", "n">>}, {}),
    Rule("Disney+", "word", {<<"d", "s", "n", "p">>, <<"d", "i", "s", "n", "e", "y">>}, {}),
    Rule("HBO Max", "word", {<<"h", "m", "a", "x">>, <<"h", "b", "o">>}, {}),
    Rule("Apple TV+", "word", {<<"a", "t", "v", "p">>, <<"a", "p", "p", "l", "e">>}, {}),
    Rule("Hulu", "word", {<<"h", "u", "l", "u">>}, {}),
    Rule("Peacock", "word", {<<"p", "c", "o", "k">>}, {}),
    Rule("Paramount+", "word", {<<"p", "m", "t", "p">>}, {}),
    Rule("YouTube", "word", {<<"y", "o", "u", "t", "u", "b", "e">>, <<"y", "t">>}, {}),
    Rule("BBC iPlayer", "word", {<<"b", "b", "c">>}, {}),
    Rule("iTunes", "word", {<<"i", "t", "u", "n", "e", "s">>}, {})
  >>

\* re.search(pattern, filename_lower, re.IGNORECASE) for one rule: every
\* pattern is written in lower case and is searched in a lower-cased
\* string, where the flag changes nothing for the ASCII letters
RuleMatches(rule, s) ==
  IF rule.kind = "suffix"
    THEN SuffixSearch(rule.alts, ignore_case(s))
    ELSE WordSearch(rule.alts, rule.neg, ignore_case(s))

\* for label, pattern in table.items(): if re.search(...): ...; break
\* the index of the rule that sets the field, 0 when the loop ends unbroken
RECURSIVE ScanFrom(_, _, _)
ScanFrom(table, s, i) ==
  IF i > Len(table) THEN 0
  ELSE IF RuleMatches(table[i], s) THEN i
  ELSE ScanFrom(table, s, i + 1)

\* a loop without its break: the last rule that matches sets the field
LastMatch(table, s) ==
  LET M == {i \in 1..Len(table) : RuleMatches(table[i], s)}
  IN  IF M = {} THEN 0 ELSE CHOOSE i \in M : \A j \in M : j <= i

FirstMatch(table, s) == ScanFrom(table, s, 1)

\* Optional[str]
None == <<>>

Some(v) == <<v>>

\* a category field that starts as "Unknown", as file_type does
DetectUnknown(table, s) ==
  LET i == ScanFrom(table, s, 1)
  IN  IF i = 0 THEN Some("Unknown") ELSE Some(table[i].label)

\* an Optional[str] field of AnalysisResult after its loop
Detect(table, s) ==
  LET i == FirstMatch(table, s)
  IN  IF i = 0 THEN None ELSE Some(table[i].label)

\* file_type without its "Unknown" default
DetectFormatNoDefault(s) ==
  LET i == ScanFrom(format_patterns, s, 1)
  IN  IF i = 0 THEN "" ELSE format_patterns[i].label

\* file_type starts as "Unknown"
DetectFormat(s) ==
  LET i == FirstMatch(format_patterns, s)
  IN  IF i = 0 THEN "Unknown" ELSE format_patterns[i].label

(***************************************************************************)
(* The auxiliary patterns of format_details.                               *)
(***************************************************************************)
subtitle_words ==
  {<<"s", "u", "b">>, <<"s", "u", "b", "s">>,
   <<"s", "u", "b", "t", "i", "t", "l", "e">>,
   <<"s", "u", "b", "t", "i", "t", "l", "e", "s">>}

multi_audio_words ==
  {<<"d", "u", "a", "l">>, <<"m", "u", "l", "t", "i">>,
   <<"m", "u", "l", "t", "i", "l", "a", "n", "g">>}

three_d_words == {<<"3", "d">>}

\* r'\b(hdr|hdr10|dolby.vision)\b': the dot is not escaped
hdr_words ==
  {<<"h", "d", "r">>, <<"h", "d", "r", "1", "0">>,
   <<"d", "o", "l", "b", "y", Dot, "v", "i", "s", "i", "o", "n">>}

\* the length of the run of digits that starts at position i (\d+, greedy)
RECURSIVE DigitRun(_, _)
DigitRun(s, i) ==
  IF i >= 1 /\ i <= Len(s) /\ IsDigit(s[i]) THEN 1 + DigitRun(s, i + 1) ELSE 0

\* the year pattern without its two \b
YearAtAnywhere(s, i) ==
  /\ LitAt(s, i, <<"1", "9">>) \/ LitAt(s, i, <<"2", "0">>)
  /\ i + 3 <= Len(s)
  /\ IsDigit(s[i + 2])
  /\ IsDigit(s[i + 3])

\* r'\b(19|20)\d{2}\b' matches at position i
YearAt(s, i) ==
  /\ WordBoundary(s, i)
  /\ LitAt(s, i, <<"1", "9">>) \/ LitAt(s, i, <<"2", "0">>)
  /\ i + 3 <= Len(s)
  /\ IsDigit(s[i + 2])
  /\ IsDigit(s[i + 3])
  /\ WordBoundary(s, i + 4)

\* the least member of a non-empty set of positions: re.search is leftmost
Leftmost(S) == CHOOSE i \in S : \A j \in S : i <= j

\* the last match instead of the first
extract_year_last(s) ==
  LET at == {i \in 1..Len(s) : YearAt(s, i)}
      last == CHOOSE i \in at : \A j \in at : j <= i
  IN  IF at = {} THEN None ELSE Some(SubSeq(s, last, last + 3))

extract_year(s) ==
  LET at == {i \in 1..Len(s) : YearAt(s, i)}
  IN  IF at = {} THEN None
      ELSE Some(SubSeq(s, Leftmost(at), Leftmost(at) + 3))

\* no padding
zfill_none(s, width) == s

\* str.zfill(width)
zfill(s, width) ==
  IF Len(s) >= width THEN s
  ELSE [i \in 1..(width - Len(s)) |-> "0"] \o s

\* r's(\d+)e(\d+)' at position i: <<group 1, group 2>>, or <<>>
MatchSE(s, i) ==
  LET n == DigitRun(s, i + 1)
      m == DigitRun(s, i + n + 2)
  IN  IF /\ LitAt(s, i, <<"s">>)
         /\ n >= 1
         /\ LitAt(s, i + n + 1, <<"e">>)
         /\ m >= 1
        THEN <<SubSeq(s, i + 1, i + n), SubSeq(s, i + n + 2, i + n + m + 1)>>
        ELSE <<>>

\* r'(\d+)x(\d+)' at position i
MatchNxN(s, i) ==
  LET n == DigitRun(s, i)
      m == DigitRun(s, i + n + 1)
  IN  IF n >= 1 /\ LitAt(s, i + n, <<"x">>) /\ m >= 1
        THEN <<SubSeq(s, i, i + n - 1), SubSeq(s, i + n + 1, i + n + m)>>
        ELSE <<>>

\* the unescaped ".?" at position i can take a character
CanSkip(s, i) == i >= 1 /\ i <= Len(s) /\ s[i] # "\n"

\* the tail r'.?(\d+)' of the second pattern from position q: where group 2
\* starts, 0 when the tail does not match.  ".?" is greedy: it takes a
\* character when a digit still follows it.
EpisodeStart(s, q) ==
  IF CanSkip(s, q) /\ DigitRun(s, q + 1) >= 1 THEN q + 1
  ELSE IF DigitRun(s, q) >= 1 THEN q
  ELSE 0

\* r'season.?(\d+).?episode.?(\d+)' at position i.  A way to match is
\* <<skip1, k, skip2>>: whether the first ".?" takes a character, the length
\* of group 1, whether the second ".?" takes a character.  The backtracking
\* matcher tries skip1 = 1 first, longer k first, skip2 = 1 first.
SeasonWays(s, i) ==
  IF ~LitAt(s, i, <<"s", "e", "a", "s", "o", "n">>) THEN {}
  ELSE {w \in {0, 1} \X (1..Len(s)) \X {0, 1} :
          LET d == i + 6 + w[1]
              r == d + w[2]
              e == r + w[3]
          IN  /\ w[1] = 1 => CanSkip(s, i + 6)
              /\ w[2] <= DigitRun(s, d)
              /\ w[3] = 1 => CanSkip(s, r)
              /\ LitAt(s, e, <<"e", "p", "i", "s", "o", "d", "e">>)
              /\ EpisodeStart(s, e + 7) # 0}

TriedBefore(v, w) ==
  \/ v[1] > w[1]
  \/ v[1] = w[1] /\ v[2] > w[2]
  \/ v[1] = w[1] /\ v[2] = w[2] /\ v[3] >= w[3]

MatchSeason(s, i) ==
  LET ways == SeasonWays(s, i)
  IN  IF ways = {} THEN <<>>
      ELSE LET w == CHOOSE v \in ways : \A u \in ways : TriedBefore(v, u)
               d == i + 6 + w[1]
               g == EpisodeStart(s, d + w[2] + w[3] + 7)
           IN  <<SubSeq(s, d, d + w[2] - 1),
                 SubSeq(s, g, g + DigitRun(s, g) - 1)>>

\* the list in the opposite order
se_patterns_reversed == <<"NxN", "season", "SE">>

\* the three entries of se_patterns, in list order
se_patterns == <<"SE", "season", "NxN">>

MatchFamily(family, s, i) ==
  IF family = "SE" THEN MatchSE(s, i)
  ELSE IF family = "season" THEN MatchSeason(s, i)
  ELSE MatchNxN(s, i)

\* re.search(pattern, s): the groups of the leftmost match, or <<>>
SearchFamily(family, s) ==
  LET at == {i \in 1..Len(s) : MatchFamily(family, s, i) # <<>>}
  IN  IF at = {} THEN <<>> ELSE MatchFamily(family, s, Leftmost(at))

\* for pattern in se_patterns: ... if match: return f"S{..}E{..}"
RECURSIVE TryFamilies(_, _)
TryFamilies(s, k) ==
  IF k > Len(se_patterns) THEN None
  ELSE LET g == SearchFamily(se_patterns[k], s)
       IN  IF g # <<>>
             THEN Some(<<"S">> \o zfill(g[1], 2) \o <<"E">> \o zfill(g[2], 2))
             ELSE TryFamilies(s, k + 1)

extract_season_episode(s) == TryFamilies(lower(s), 1)

(***************************************************************************)
(* analyze_filename.                                                       *)
(***************************************************************************)
\* the loops chained with elif: resolution is looked for only when no
\* quality was found
analyze_filename_chained(f) ==
  LET filename_lower == lower(f)
  IN  [filename |-> f,
       file_type |-> DetectFormat(filename_lower),
       quality |-> Detect(quality_patterns, filename_lower),
       resolution |->
         IF Detect(quality_patterns, filename_lower) = None
           THEN Detect(resolution_patterns, filename_lower)
           ELSE None,
       codec |-> Detect(video_codec_patterns, filename_lower),
       audio_codec |-> Detect(audio_codec_patterns, filename_lower),
       language |-> Detect(language_patterns, filename_lower),
       source |-> Detect(source_patterns, filename_lower),
       format_details |->
         [has_subtitles |-> WordSearch(subtitle_words, {}, filename_lower),
          has_multiple_audio |->
            WordSearch(multi_audio_words, {}, filename_lower),
          is_3d |-> WordSearch(three_d_words, {}, filename_lower),
          is_hdr |-> WordSearch(hdr_words, {}, filename_lower),
          year |-> extract_year(f),
          season_episode |-> extract_season_episode(f)]]

analyze_filename(f) ==
  LET filename_lower == lower(f)
  IN  [filename |-> f,
       file_type |-> DetectFormat(filename_lower),
       quality |-> Detect(quality_patterns, filename_lower),
       resolution |-> Detect(resolution_patterns, filename_lower),
       codec |-> Detect(video_codec_patterns, filename_lower),
       audio_codec |-> Detect(audio_codec_patterns, filename_lower),
       language |-> Detect(language_patterns, filename_lower),
       source |-> Detect(source_patterns, filename_lower),
       format_details |->
         [has_subtitles |-> WordSearch(subtitle_words, {}, filename_lower),
          has_multiple_audio |->
            WordSearch(multi_audio_words, {}, filename_lower),
          is_3d |-> WordSearch(three_d_words, {}, filename_lower),
          is_hdr |-> WordSearch(hdr_words, {}, filename_lower),
          year |-> extract_year(f),
          season_episode |-> extract_season_episode(f)]]

(***************************************************************************)
(* The analyzer shared by all callers, and analyze_filename statement by   *)
(* statement, as a caller that is interleaved with others runs it.         *)
(***************************************************************************)
\* the seven dictionaries of the analyzer, in the order of their loops
CategoryTables ==
  <<format_patterns, quality_patterns, resolution_patterns,
    video_codec_patterns, audio_codec_patterns, language_patterns,
    source_patterns>>

Categories == 1..Len(CategoryTables)

\* the field of the result each loop assigns
fields ==
  <<"file_type", "quality", "resolution", "codec", "audio_codec", "language",
    "source">>

\* AnalysisResult(filename=filename, file_type="Unknown", format_details={})
new_result(f) ==
  [filename |-> f, file_type |-> "Unknown", quality |-> None,
   resolution |-> None, codec |-> None, audio_codec |-> None,
   language |-> None, source |-> None, format_details |-> <<>>]

\* the result after the loop over the table of category k
after_loop(r, k, table, filename_lower) ==
  LET i == FirstMatch(table, filename_lower)
  IN  IF i = 0 THEN r
      ELSE [r EXCEPT ![fields[k]] =
              IF k = 1 THEN table[i].label ELSE Some(table[i].label)]

\* a loop that moves the rule it matched to the front of its dictionary
table_after_loop_hit_first(table, filename_lower) ==
  LET i == FirstMatch(table, filename_lower)
  IN  IF i = 0 THEN table
      ELSE <<table[i]>> \o SubSeq(table, 1, i - 1)
             \o SubSeq(table, i + 1, Len(table))

\* the dictionary after a loop over it: the loop reads items() and assigns
\* to the result only
table_after_loop(table, filename_lower) == table

\* the dictionary assigned to result.format_details
format_details(f, filename_lower) ==
  [has_subtitles |-> WordSearch(subtitle_words, {}, filename_lower),
   has_multiple_audio |-> WordSearch(multi_audio_words, {}, filename_lower),
   is_3d |-> WordSearch(three_d_words, {}, filename_lower),
   is_hdr |-> WordSearch(hdr_words, {}, filename_lower),
   year |-> extract_year(f),
   season_episode |-> extract_season_episode(f)]

(***************************************************************************)
(* format_file_size.  A byte count is held as its digits in base 1024,     *)
(* most significant first (1536 is <<1, 512>>, zero is <<0>>), so that      *)
(* every division by 1024.0 is exact, as it is on the floats of the source *)
(* for counts below 2^53, and no count leaves the range of the integers.   *)
(***************************************************************************)
Base == 1024

\* the units the loop walks through, and the one it falls back on
units == <<"B", "KB", "MB", "GB", "TB">>

last_unit == "PB"

Unknown == <<"U", "n", "k", "n", "o", "w", "n">>

\* the integer written with the base-1024 digits ds
RECURSIVE ValueOf(_)
ValueOf(ds) ==
  IF ds = <<>> THEN 0 ELSE ValueOf(SubSeq(ds, 1, Len(ds) - 1)) * Base + ds[Len(ds)]

\* ten times the fraction 0.frac: the integer part and the fraction left
RECURSIVE TimesTen(_)
TimesTen(frac) ==
  IF frac = <<>> THEN [carry |-> 0, rest |-> <<>>]
  ELSE LET low == TimesTen(Tail(frac))
           v == 10 * Head(frac) + low.carry
       IN  [carry |-> v \div Base, rest |-> <<v % Base>> \o low.rest]

\* the fraction 0.rest compared with one half
AboveHalf(rest) ==
  /\ rest # <<>>
  /\ \/ rest[1] > Base \div 2
     \/ rest[1] = Base \div 2 /\ \E i \in 2..Len(rest) : rest[i] # 0

IsHalf(rest) ==
  /\ rest # <<>>
  /\ rest[1] = Base \div 2
  /\ \A i \in 2..Len(rest) : rest[i] = 0

\* the number of tenths '.1f' prints for whole.frac: the nearest one, the
\* even one when two are equally near
Tenths(whole, frac) ==
  LET t == TimesTen(frac)
      down == 10 * ValueOf(whole) + t.carry
  IN  IF AboveHalf(t.rest) \/ (IsHalf(t.rest) /\ down % 2 = 1)
        THEN down + 1
        ELSE down

DigitChar(d) == <<"0", "1", "2", "3", "4", "5", "6", "7", "8", "9">>[d + 1]

\* the decimal digits of n
RECURSIVE Decimal(_)
Decimal(n) ==
  IF n < 10 THEN <<DigitChar(n)>>
  ELSE Decimal(n \div 10) \o <<DigitChar(n % 10)>>

\* f"{size_bytes:.1f} {unit}"
OneDecimal(whole, frac, unit) ==
  LET t == Tenths(whole, frac)
  IN  Decimal(t \div 10) \o <<".", DigitChar(t % 10), " ">> \o <<unit>>

\* the loop over the units: whole.frac is size_bytes, us the units left
RECURSIVE Scale(_, _, _)
Scale(whole, frac, us) ==
  IF us = <<>> THEN OneDecimal(whole, frac, last_unit)
  ELSE IF Len(whole) <= 1 THEN OneDecimal(whole, frac, Head(us))
  ELSE Scale(SubSeq(whole, 1, Len(whole) - 1),
             <<whole[Len(whole)]>> \o frac, Tail(us))

\* 'if not size_bytes' holds for None and for 0
Falsy(size_bytes) == size_bytes = None \/ size_bytes = Some(<<0>>)

format_file_size(size_bytes) ==
  IF Falsy(size_bytes) THEN Unknown ELSE Scale(size_bytes[1], <<>>, units)

(***************************************************************************)
(* format_analysis_response.  The response is the sequence of its lines,   *)
(* a line the sequence of the pieces of text it is put together from; the  *)
(* pictographs are written by name.                                        *)
(***************************************************************************)
\* what a caller can pass as file_info: whether the value is None, whether
\* it is truthy, the attributes it has, and their values
FileInfo(none, truthy, attrs, size, mime) ==
  [none |-> none, truthy |-> truthy, attrs |-> attrs, file_size |-> size,
   mime_type |-> mime]

\* the attributes format_analysis_response reads
FileAttributes == {"file_size", "mime_type"}

\* file_info = None, the default
NoFileInfo == FileInfo(TRUE, FALSE, {}, None, None)

\* a FileMetadata object
FileMetadata(size, mime) == FileInfo(FALSE, TRUE, FileAttributes, size, mime)

\* a value that is not a FileMetadata: an empty one (falsy), and non-empty
\* ones that lack one or both of the attributes
EmptyValue == FileInfo(FALSE, FALSE, {}, None, None)

WrongShape(attrs) == FileInfo(FALSE, TRUE, attrs, None, None)

\* a call that returned v, a call that raised the exception e
Returned(v) == [exception |-> None, value |-> v]

Raised(e) == [exception |-> Some(e), value |-> <<>>]

quality_emojis ==
  [q \in {"CAM", "TS", "DVDRip", "BluRay", "WEB-DL", "WEBRip", "HDTV", "UHD",
          "REMUX"} |->
     CASE q = "CAM" -> "(camera)"
       [] q = "TS" -> "(film)"
       [] q = "DVDRip" -> "(dvd)"
       [] q = "BluRay" -> "(disc)"
       [] q \in {"WEB-DL", "WEBRip"} -> "(globe)"
       [] q = "HDTV" -> "(tv)"
       [] q = "UHD" -> "(fire)"
       [] q = "REMUX" -> "(sparkles)"]

\* quality_emojis.get(quality, default)
get_quality_emoji(quality) ==
  IF quality \in DOMAIN quality_emojis THEN quality_emojis[quality]
  ELSE "(clapper)"

\* 'if v:' on an Optional[str] that holds a label, and on one that holds text
TruthyLabel(v) == v # None /\ v[1] # ""

TruthyText(v) == v # None /\ v[1] # <<>>

\* the line appended under 'if cond:', nothing otherwise
LineIf(cond, line) == IF cond THEN <<line>> ELSE <<>>

BlankLine == <<>>

\* the grave accent that opens and closes inline code
CodeMark == "(grave)"

Header == <<"(clapper) **File Analysis Results**">>

SectionHeader == <<"**(magnifier) Detected Metadata:**">>

SuccessMarker == <<"_Analysis completed successfully!_ (check)">>

\* the lines appended for a truthy file_info whose attributes can be read
FileInfoLines(info) ==
  <<<<"(disk) **File Size:** ">> \o format_file_size(info.file_size)>>
    \o LineIf(TruthyLabel(info.mime_type),
              <<"(clipboard) **MIME Type:** ", CodeMark, info.mime_type[1],
                CodeMark>>)

\* the lines from the section header to the success marker
MetadataLines(analysis) ==
  LET details == analysis.format_details
  IN  <<BlankLine, SectionHeader, <<"* **Format:** ", analysis.file_type>>>>
        \o LineIf(TruthyLabel(analysis.quality),
                  <<"* **Quality:** ", get_quality_emoji(analysis.quality[1]),
                    " ", analysis.quality[1]>>)
        \o LineIf(TruthyLabel(analysis.resolution),
                  <<"* **Resolution:** (tv) ", analysis.resolution[1]>>)
        \o LineIf(TruthyLabel(analysis.codec),
                  <<"* **Video Codec:** (film) ", analysis.codec[1]>>)
        \o LineIf(TruthyLabel(analysis.audio_codec),
                  <<"* **Audio Codec:** (speaker) ", analysis.audio_codec[1]>>)
        \o LineIf(TruthyLabel(analysis.language),
                  <<"* **Language:** (globe) ", analysis.language[1]>>)
        \o LineIf(TruthyLabel(analysis.source),
                  <<"* **Source:** (tv) ", analysis.source[1]>>)
        \o LineIf(TruthyText(details.year),
                  <<"* **Year:** (calendar) ">> \o details.year[1])
        \o LineIf(TruthyText(details.season_episode),
                  <<"* **Episode:** (tv) ">> \o details.season_episode[1])
        \o LineIf(details.has_subtitles, <<"* **Subtitles:** (speech) Yes">>)
        \o LineIf(details.has_multiple_audio,
                  <<"* **Multi-Audio:** (notes) Yes">>)
        \o LineIf(details.is_3d, <<"* **3D:** (glasses) Yes">>)
        \o LineIf(details.is_hdr, <<"* **HDR:** (sparkles) Yes">>)
        \o <<BlankLine, SuccessMarker>>

\* a report that leaves file_info unread
format_analysis_response_no_file_info(analysis, info) ==
  Returned(<<Header, BlankLine,
             <<"(folder) **Filename:** ", CodeMark>> \o analysis.filename
               \o <<CodeMark>>>> \o MetadataLines(analysis))

format_analysis_response(analysis, info) ==
  LET top == <<Header, BlankLine,
               <<"(folder) **Filename:** ", CodeMark>> \o analysis.filename
                 \o <<CodeMark>>>>
  IN  IF ~info.truthy
        THEN Returned(top \o MetadataLines(analysis))
      ELSE IF FileAttributes \subseteq info.attrs
        THEN Returned(top \o FileInfoLines(info)
                        \o MetadataLines(analysis))
      ELSE Raised("AttributeError")

\* a call that takes the year out of format_details as it reports it
arguments_after_pop(analysis, info) ==
  <<[analysis EXCEPT !.format_details.year = None], info>>

\* the arguments as the call leaves them: the function assigns to its local
\* 'response' and to nothing else
arguments_after(analysis, info) == <<analysis, info>>

(***************************************************************************)
(* The state machine: a caller hands one filename to the analyzer, which   *)
(* returns its AnalysisResult.  The filenames are the concatenations of a  *)
(* few tokens; each specification draws them from one vocabulary.          *)
(***************************************************************************)
\* the most tokens in a filename of SpecTables
MaxTokens == 2

\* the most tokens in a filename of the other specifications
MaxParts == 3

\* the concatenation of a sequence of character sequences
RECURSIVE Flatten(_)
Flatten(ts) == IF ts = <<>> THEN <<>> ELSE Head(ts) \o Flatten(Tail(ts))

\* the filenames written with at most n tokens of V
Names(V, n) == {Flatten(ts) : ts \in UNION {[1..k -> V] : k \in 0..n}}

\* tokens of the seven tables, two rules of each, some shared by two tables
TableTokens ==
  {<<"c", "a", "m">>,
   <<"-", "r", "i", "p">>,
   <<".", "B", "D", "R", "i", "p">>,
   <<".", "W", "E", "B">>,
   <<"-", "D", "L">>,
   <<".", "u", "h", "d">>,
   <<"f", "u", "l", "l">>,
   <<".", "H", "D">>,
   <<".", "x", "2", "6", "4">>,
   <<".", "h", "e", "v", "c">>,
   <<".", "a", "a", "c">>,
   <<".", "D", "T", "S">>,
   <<".", "e", "n", "g">>,
   <<".", "h", "i">>,
   <<".", "N", "F">>,
   <<".", "a", "m", "z", "n">>,
   <<".", "m", "k", "v">>,
   <<".", "t", "s">>,
   <<"_">>,
   <<".", "2", "0", "1", "9">>,
   <<".", "S", "0", "2", "E", "0", "5">>,
   <<".", "3", "D">>,
   <<"r", "a", "n", "d", "o", "m", "_", "t", "e", "x", "t", "_", "n", "o", "_", "e", "x", "t", "e", "n", "s", "i", "o", "n">>}

\* extensions at and away from the end of the name
FormatTokens ==
  {<<"m", "o", "v", "i", "e">>,
   <<".", "m", "k", "v">>,
   <<".", "M", "K", "V">>,
   <<".", "t", "s">>,
   <<".", "m", "t", "s">>,
   <<".", "m", "p", "g">>,
   <<".", "m", "p", "e", "g">>,
   <<".", "c", "a", "m">>,
   <<".">>,
   <<"x">>,
   <<"\n">>}

\* years, other digit runs and what may surround them
YearTokens ==
  {<<"2", "0", "1", "9">>,
   <<".", "2", "0", "2", "0">>,
   <<"1", "9", "9", "9">>,
   <<"1", "8", "9", "9">>,
   <<"2", "1">>,
   <<"a">>,
   <<"_">>,
   <<".">>,
   <<"-">>,
   <<" ">>}

\* the three season/episode spellings and pieces of them
EpisodeTokens ==
  {<<"S", "1", "E", "2">>,
   <<"1", "x", "0", "2">>,
   <<"S", "e", "a", "s", "o", "n", " ", "1">>,
   <<" ", "E", "p", "i", "s", "o", "d", "e", " ", "3">>,
   <<"s", "e", "a", "s", "o", "n", "1", "2">>,
   <<"e", "p", "i", "s", "o", "d", "e", "3", "4">>,
   <<"s">>,
   <<"x">>,
   <<"1">>,
   <<"2", "0">>,
   <<".">>}

\* the HDR words and the characters that may join or surround them
HdrTokens ==
  {<<"h", "d", "r">>,
   <<"H", "D", "R", "1", "0">>,
   <<"d", "o", "l", "b", "y">>,
   <<"v", "i", "s", "i", "o", "n">>,
   <<".">>,
   <<" ">>,
   <<"-">>,
   <<"_">>,
   <<"x">>,
   <<"1", "0">>,
   <<"\n">>}

\* the tokens of "Movie.2023.1080p.BluRay.x264.mkv"
MovieTokens ==
  <<<<"M", "o", "v", "i", "e">>,
    <<".", "2", "0", "2", "3">>,
    <<".", "1", "0", "8", "0", "p">>,
    <<".", "B", "l", "u", "R", "a", "y">>,
    <<".", "x", "2", "6", "4">>,
    <<".", "m", "k", "v">>>>

\* the tokens of "Show.S02E05.720p.WEB-DL.AAC.mp4"
ShowTokens ==
  <<<<"S", "h", "o", "w">>,
    <<".", "S", "0", "2", "E", "0", "5">>,
    <<".", "7", "2", "0", "p">>,
    <<".", "W", "E", "B", "-", "D", "L">>,
    <<".", "A", "A", "C">>,
    <<".", "m", "p", "4">>>>

\* the tokens of ts whose position is in S, in their order, joined
RECURSIVE Keep(_, _, _)
Keep(ts, S, i) ==
  IF i > Len(ts) THEN <<>>
  ELSE (IF i \in S THEN ts[i] ELSE <<>>) \o Keep(ts, S, i + 1)

\* a filename and every filename left when some of its tokens are dropped
Shortened(ts) == {Keep(ts, S, 1) : S \in SUBSET (1..Len(ts))}

ExampleNames == Shortened(MovieTokens) \cup Shortened(ShowTokens)

\* the words the rules of a table are written with
Words(table) == UNION {table[i].alts : i \in 1..Len(table)}

\* every word of every rule of the seven tables, as a filename of its own
RuleWords ==
  Words(format_patterns) \cup Words(quality_patterns)
    \cup Words(resolution_patterns) \cup Words(video_codec_patterns)
    \cup Words(audio_codec_patterns) \cup Words(language_patterns)
    \cup Words(source_patterns)

\* the tokens of two filenames that have, between them, a word for every
\* line of the report
ReportTokens ==
  <<<<"M", "o", "v", "i", "e">>,
    <<".", "c", "a", "m">>,
    <<".", "1", "0", "8", "0", "p">>,
    <<".", "x", "2", "6", "4">>,
    <<".", "2", "0", "1", "9">>,
    <<".", "s", "u", "b", "s">>,
    <<".", "3", "d">>,
    <<".", "m", "k", "v">>>>

EpisodeReportTokens ==
  <<<<"S", "h", "o", "w">>,
    <<".", "S", "0", "1", "E", "0", "2">>,
    <<".", "h", "d", "r", "i", "p">>,
    <<".", "a", "a", "c">>,
    <<".", "e", "n", "g">>,
    <<".", "n", "f">>,
    <<".", "d", "u", "a", "l">>,
    <<".", "h", "d", "r">>>>

ReportNames == Shortened(ReportTokens) \cup Shortened(EpisodeReportTokens)

\* the file_info values handed to format_analysis_response: none, values
\* of the wrong shape, and FileMetadata objects
FileInfos ==
  {NoFileInfo, EmptyValue, WrongShape({}), WrongShape({"file_size"})}
    \cup {FileMetadata(size, mime) :
            size \in {None, Some(<<0>>), Some(<<1, 512>>)},
            mime \in {None, Some("video/mp4")}}

\* the base-1024 digits the byte counts are written with
SizeDigits == {0, 1, 256, 512, 1023}

\* the byte counts of d digits, below 2^53 = 8 * 1024^5
SizesOfLen(d) ==
  {ds \in [1..d -> SizeDigits] :
     /\ d > 1 => ds[1] # 0
     /\ d > Len(units) => ds[1] < 8}

\* file_size: None, or a count that reaches the unit B, KB, ... or PB
Sizes ==
  {None} \cup {Some(ds) : ds \in UNION {SizesOfLen(d) : d \in 1..Len(units) + 1}}

\* result before analyze_filename has returned
NoResult == <<>>

\* no request has come to the webhook endpoint of the process
NoRequest == <<>>

\* a filename of names and a file_info of infos have come in and nothing has
\* been computed from them
Handed(names, infos) ==
  /\ filename \in names
  /\ file_info \in infos
  /\ result = NoResult
  /\ response = NoResult
  /\ pc = "start"
  /\ program = "server"
  /\ analyses = <<>>
  /\ sent = <<>>
  /\ clock = 0
  /\ patterns = CategoryTables
  /\ calls = <<>>
  /\ messages = <<>>
  /\ webhook = NoRequest

\* a call of analyze_filename(f) has been made and has not returned
Called(names) == Handed(names, {NoFileInfo})

InitTables == Called(Names(TableTokens, MaxTokens))

InitFormat == Called(Names(FormatTokens, MaxParts))

InitYear == Called(Names(YearTokens, MaxParts))

InitEpisode == Called(Names(EpisodeTokens, MaxParts))

InitHdr == Called(Names(HdrTokens, MaxParts))

InitExamples == Called(ExampleNames)

InitWords == Called(RuleWords)

InitReport == Handed(ReportNames, FileInfos)

InitSize == Handed({<<>>}, {FileMetadata(size, None) : size \in Sizes})

\* analyze_filename runs to its return statement
Analyze ==
  /\ pc = "start"
  /\ result' = analyze_filename(filename)
  /\ pc' = "done"
  /\ UNCHANGED <<filename, file_info, response>>
  /\ UNCHANGED service
  /\ UNCHANGED shared
  /\ UNCHANGED endpoint

Next == Analyze

\* format_analysis_response(analysis, file_info) is called on the result, and
\* then once more
Render ==
  /\ pc \in {"done", "rendered"}
  /\ response' = format_analysis_response(result, file_info)
  /\ LET after == arguments_after(result, file_info)
     IN  result' = after[1] /\ file_info' = after[2]
  /\ pc' = IF pc = "done" THEN "rendered" ELSE "rendered again"
  /\ UNCHANGED filename
  /\ UNCHANGED service
  /\ UNCHANGED shared
  /\ UNCHANGED endpoint

NextReport == Analyze \/ Render

\* format_file_size(file_info.file_size) is called
FormatSize ==
  /\ pc = "start"
  /\ response' = Returned(format_file_size(file_info.file_size))
  /\ pc' = "sized"
  /\ UNCHANGED <<filename, result, file_info>>
  /\ UNCHANGED service
  /\ UNCHANGED shared
  /\ UNCHANGED endpoint

NextSize == FormatSize

(***************************************************************************)
(* The message handlers of the webhook server (server.py) and of the two   *)
(* polling bots (telegram_bot.py, telegram_bot_simple.py), which write the *)
(* analyses collection and answer /stats from it.                          *)
(***************************************************************************)
\* the most messages one program handles
MaxMessages == 3

\* the most file_type groups a /stats reply lists
StatsLimit == 5

PollingBots == {"telegram_bot", "telegram_bot_simple"}

Programs == {"server"} \cup PollingBots

\* the chats that write to the program
Chats == {1, 2}

\* message.from_user.username: the user of chat 2 has none
username == [chat \in Chats |-> IF chat = 1 THEN Some("alice") ELSE None]

\* the filenames that arrive: one with an extension, one without
MessageNames == {<<"a", ".", "m", "k", "v">>, <<"c", "a", "m">>}

\* the extensions handle_text looks for
text_extensions ==
  {<<".", "m", "k", "v">>, <<".", "m", "p", "4">>, <<".", "a", "v", "i">>,
   <<".", "w", "e", "b", "m">>, <<".", "m", "o", "v">>, <<".", "f", "l", "v">>,
   <<".", "w", "m", "v">>}

\* 'lit in s'
Contains(s, lit) == \E i \in 1..Len(s) : LitAt(s, i, lit)

\* the test handle_text makes before it analyses a text
looks_like_filename(text) ==
  /\ Contains(text, <<".">>)
  /\ \E ext \in text_extensions : Contains(lower(text), ext)

\* str(uuid.uuid4()): a fresh identifier for every message handled
uuid4 == <<"uuid", clock>>

\* datetime.utcnow()
utcnow == [zone |-> "UTC", time |-> clock]

\* AnalysisResult.dict() and FileMetadata.dict()
dict(model) == model

\* the document the webhook server inserts
server_record(chat, f, analysis, source) ==
  [id |-> uuid4, chat_id |-> chat, filename |-> f,
   analysis |-> dict(analysis), timestamp |-> utcnow, source |-> source]

\* the document the polling bots insert
bot_record(chat, f, analysis, source) ==
  [id |-> uuid4, chat_id |-> chat, username |-> username[chat],
   filename |-> f, analysis |-> dict(analysis), timestamp |-> utcnow,
   source |-> source]

\* the same document with the file_metadata of an upload
WithMetadata(record, info) == record @@ ("file_metadata" :> dict(info))

\* a reply sent to a chat
Reply(chat, kind, body) ==
  [chat_id |-> chat, kind |-> kind, body |-> body, time |-> clock]

\* document.file_name or "Unknown"
file_name_or_default(name) ==
  IF name = None THEN <<"U", "n", "k", "n", "o", "w", "n">> ELSE name[1]

\* the file information of an uploaded document
UploadInfo == FileMetadata(Some(<<1, 512>>), None)

\* the filenames the handlers analyse, and analyzer.analyze_filename on them
AnalysedNames == MessageNames \cup {file_name_or_default(None)}

analyzer == [f \in AnalysedNames |-> analyze_filename(f)]

\* the handler of the path (an /analyze command, an upload, a free text) has
\* got the analysis of f, built the report with info, sent it to chat and
\* inserted the document made of the analysis into analyses
Answered(path, chat, f, analysis, info, document) ==
  LET report == format_analysis_response(analysis, info)
  IN  /\ filename' = f
      /\ file_info' = info
      /\ result' = analysis
      /\ response' = report
      /\ pc' = path
      /\ sent' = Append(sent, Reply(chat, "analysis", report.value))
      /\ analyses' = Append(analyses, document)
      /\ clock' = clock + 1
      /\ UNCHANGED program
      /\ UNCHANGED shared
      /\ UNCHANGED endpoint

\* a handler has sent a reply of the given kind and done nothing else
Replied(chat, kind, body) ==
  /\ sent' = Append(sent, Reply(chat, kind, body))
  /\ pc' = "replied"
  /\ clock' = clock + 1
  /\ UNCHANGED <<filename, file_info, result, response, program, analyses>>
  /\ UNCHANGED shared
  /\ UNCHANGED endpoint

\* what follows /analyze: nothing, or a filename
Arguments == {None} \cup {Some(f) : f \in MessageNames}

\* handle_telegram_message of server.py on '/analyze' and '/analyze f'
ServerAnalyze ==
  /\ program = "server"
  /\ clock < MaxMessages
  /\ \E chat \in Chats : \E arg \in Arguments :
       IF arg = None
         THEN Replied(chat, "usage", <<>>)
         ELSE \E analysis \in {analyzer[arg[1]]} :
                Answered("/analyze", chat, arg[1], analysis, NoFileInfo,
                         server_record(chat, arg[1], analysis, "command"))

\* handle_telegram_message of server.py on a document, video or audio
ServerUpload ==
  /\ program = "server"
  /\ clock < MaxMessages
  /\ \E chat \in Chats : \E name \in Arguments :
       LET f == file_name_or_default(name)
       IN  \E analysis \in {analyzer[f]} :
             Answered("upload", chat, f, analysis, UploadInfo,
                      WithMetadata(server_record(chat, f, analysis,
                                                 "file_upload"), UploadInfo))

\* analyze_command of the polling bots
BotAnalyze ==
  /\ program \in PollingBots
  /\ clock < MaxMessages
  /\ \E chat \in Chats : \E arg \in Arguments :
       IF arg = None
         THEN Replied(chat, "usage", <<>>)
         ELSE \E analysis \in {analyzer[arg[1]]} :
                Answered("/analyze", chat, arg[1], analysis, NoFileInfo,
                         bot_record(chat, arg[1], analysis, "command"))

\* handle_document, handle_video, handle_audio and analyze_and_respond of the
\* polling bots
BotUpload ==
  /\ program \in PollingBots
  /\ clock < MaxMessages
  /\ \E chat \in Chats : \E name \in Arguments :
       LET f == file_name_or_default(name)
       IN  \E analysis \in {analyzer[f]} :
             Answered("upload", chat, f, analysis, UploadInfo,
                      WithMetadata(bot_record(chat, f, analysis,
                                              "file_upload"), UploadInfo))

\* handle_text of the polling bots
BotText ==
  /\ program \in PollingBots
  /\ clock < MaxMessages
  /\ \E chat \in Chats : \E text \in MessageNames :
       IF looks_like_filename(text)
         THEN \E analysis \in {analyzer[text]} :
                Answered("text", chat, text, analysis, NoFileInfo,
                         bot_record(chat, text, analysis, "text_filename"))
         ELSE Replied(chat, "help", <<>>)

\* the positions, in analyses, of the documents {"chat_id": chat} matches
Matched(chat) == {i \in 1..Len(analyses) : analyses[i].chat_id = chat}

count_documents(chat) == Cardinality(Matched(chat))

\* $group by analysis.file_type with count: {"$sum": 1}
Groups(chat) == {analyses[i].analysis.file_type : i \in Matched(chat)}

GroupCount(chat, type) ==
  Cardinality({i \in Matched(chat) : analyses[i].analysis.file_type = type})

\* $sort by count, descending: the server returns documents of equal count
\* in any order, and not the same one every time
Sorted(chat) ==
  LET G == Groups(chat)
  IN  {o \in [1..Cardinality(G) -> G] :
         /\ \A i, j \in DOMAIN o : i # j => o[i] # o[j]
         /\ \A i, j \in DOMAIN o :
              i < j => GroupCount(chat, o[i]) >= GroupCount(chat, o[j])}

\* $limit and to_list
Limited(o, n) == SubSeq(o, 1, IF Len(o) < n THEN Len(o) ELSE n)

\* the lists aggregate(pipeline).to_list(5) can return
aggregate(chat) ==
  {Limited([i \in DOMAIN o |->
              [file_type |-> o[i], count |-> GroupCount(chat, o[i])]],
           StatsLimit) : o \in Sorted(chat)}

\* get_user_stats of server.py and stats_command of the polling bots, which
\* add a line when there is nothing to list
Stats ==
  /\ clock < MaxMessages
  /\ \E chat \in Chats : \E format_stats \in aggregate(chat) :
       Replied(chat, "stats",
               [total |-> count_documents(chat),
                format_stats |-> format_stats,
                no_analyses_yet |->
                  program \in PollingBots /\ format_stats = <<>>])

NextService ==
  \/ ServerAnalyze
  \/ ServerUpload
  \/ BotAnalyze
  \/ BotUpload
  \/ BotText
  \/ Stats

\* a program has started and its collection is empty
InitService ==
  /\ program \in Programs
  /\ analyses = <<>>
  /\ sent = <<>>
  /\ clock = 0
  /\ patterns = CategoryTables
  /\ calls = <<>>
  /\ messages = <<>>
  /\ webhook = NoRequest
  /\ filename = <<>>
  /\ file_info = NoFileInfo
  /\ result = NoResult
  /\ response = NoResult
  /\ pc = "start"

SpecService == InitService /\ [][NextService]_vars

(***************************************************************************)
(* Callers that run analyze_filename on the shared analyzer at the same    *)
(* time, one statement at a time.                                          *)
(***************************************************************************)
\* the most calls in progress at once
MaxCallers == 2

Callers == 1..MaxCallers

\* the filenames the callers pass: in each, two rules of one table match
ConcurrentNames ==
  {Flatten(MovieTokens), Flatten(ShowTokens),
   <<"c", "a", "m", "-", "r", "i", "p", ".", "t", "s">>}

\* the frame of a call that has not run its first statement
Frame(f) == [filename |-> f, filename_lower |-> <<>>, at |-> 0, result |-> NoResult]

\* the statement after the last loop, and the return
AtDetails == Len(CategoryTables) + 1

AtReturn == Len(CategoryTables) + 2

InitConcurrent ==
  /\ calls \in [Callers -> {Frame(f) : f \in ConcurrentNames}]
  /\ patterns = CategoryTables
  /\ messages = <<>>
  /\ webhook = NoRequest
  /\ program = "server"
  /\ analyses = <<>>
  /\ sent = <<>>
  /\ clock = 0
  /\ filename = <<>>
  /\ file_info = NoFileInfo
  /\ result = NoResult
  /\ response = NoResult
  /\ pc = "start"

\* filename_lower = filename.lower(); result = AnalysisResult(...)
Enter(c) ==
  /\ calls[c].at = 0
  /\ calls' = [calls EXCEPT ![c] =
                 [@ EXCEPT !.filename_lower = lower(calls[c].filename),
                           !.result = new_result(calls[c].filename),
                           !.at = 1]]
  /\ UNCHANGED patterns

\* one of the seven loops, over the dictionary the analyzer holds
Loop(c) ==
  LET k == calls[c].at
  IN  /\ k \in Categories
      /\ calls' = [calls EXCEPT ![c] =
                     [@ EXCEPT !.result =
                                 after_loop(@, k, patterns[k],
                                            calls[c].filename_lower),
                               !.at = k + 1]]
      /\ patterns' = [patterns EXCEPT ![k] =
                        table_after_loop(@, calls[c].filename_lower)]

\* result.format_details = {...}; return result
Details(c) ==
  /\ calls[c].at = AtDetails
  /\ calls' = [calls EXCEPT ![c] =
                 [@ EXCEPT !.result.format_details =
                             format_details(calls[c].filename,
                                            calls[c].filename_lower),
                           !.at = AtReturn]]
  /\ UNCHANGED patterns

Step(c) == Enter(c) \/ Loop(c) \/ Details(c)

NextConcurrent ==
  /\ \E c \in Callers : Step(c)
  /\ UNCHANGED <<request, service, endpoint>>

SpecConcurrent == InitConcurrent /\ [][NextConcurrent]_vars

(***************************************************************************)
(* A filename analysed as it is written and then with some of its letters  *)
(* changed in case.                                                        *)
(***************************************************************************)
\* the most letters of a filename that are changed in case
MaxChanged == 2

\* the forms a character takes when its case is changed
CaseForms(c) == {c, lower_char(c), upper_char(c)}

\* f with at most n of its letters changed in case
RECURSIVE Changed(_, _)
Changed(f, n) ==
  IF f = <<>> THEN {<<>>}
  ELSE {<<Head(f)>> \o g : g \in Changed(Tail(f), n)}
         \cup IF n = 0 THEN {}
              ELSE {<<c>> \o g : c \in CaseForms(Head(f)) \ {Head(f)},
                                 g \in Changed(Tail(f), n - 1)}

\* words of the tables, of the four flags and of the episode patterns, some
\* written with a long s or a dotless i
CaseTokens ==
  {<<>>,
   <<LongS, "u", "b", "s">>,
   <<"m", "u", "l", "t", DotlessI>>,
   <<".", LongS, "1", "e", "2">>,
   <<".", DotlessI, "t", "a">>,
   <<".", "h", "d", "r">>,
   <<".", "S", "2", "E", "5">>,
   <<".", "3", "D">>,
   <<".", "2", "0", "1", "9">>,
   <<".", "x", "2", "6", "4">>,
   <<".", "M", "k", "V">>}

CaseNames == {a \o b : a \in CaseTokens, b \in CaseTokens}

InitCase == Called(CaseNames)

\* analyzer.analyze_filename(g), from the call to the return
Call(g) ==
  /\ calls' = Append(calls, [filename |-> g, filename_lower |-> lower(g),
                             at |-> AtReturn,
                             result |-> analyze_filename(g)])
  /\ UNCHANGED <<request, service, patterns, endpoint>>

\* the filename as it is written
AnalyzeWritten ==
  /\ Len(calls) = 0
  /\ Call(filename)

\* the filename with letters changed in case
AnalyzeChanged ==
  /\ Len(calls) = 1
  /\ \E g \in Changed(filename, MaxChanged) : Call(g)

NextCase == AnalyzeWritten \/ AnalyzeChanged

SpecCase == InitCase /\ [][NextCase]_vars

(***************************************************************************)
(* The webhook endpoint of server.py and handle_telegram_message, one      *)
(* awaited call at a time.  An insert or a send either is done or raises   *)
(* and has done nothing.                                                   *)
(***************************************************************************)
\* the most requests the endpoint is sent
MaxRequests == 1

\* os.getenv("WEBHOOK_SECRET", "telegram_bot_webhook_secret_2025")
WEBHOOK_SECRET == "telegram_bot_webhook_secret_2025"

Secrets == {WEBHOOK_SECRET, "TELEGRAM_BOT_WEBHOOK_SECRET_2025", "guess"}

\* secret != WEBHOOK_SECRET does not hold
Authorized_any(secret) == TRUE

Authorized(secret) == secret = WEBHOOK_SECRET

\* update.message: text holds message.text.split(' ', 1), upload says that
\* the message has a document, a video or an audio, file_name is its name
Message(chat, text, upload, file_name) ==
  [chat_id |-> chat, text |-> text, upload |-> upload,
   file_name |-> file_name]

Messages ==
  UNION {{Message(chat, Some(<<c>>), FALSE, None) :
            c \in {"/start", "/analyze", "/stats", "hello"}}
         \cup {Message(chat, Some(<<"/analyze", f>>), FALSE, None) :
                 f \in MessageNames}
         \cup {Message(chat, None, TRUE, name) : name \in Arguments}
         \cup {Message(chat, None, FALSE, None)} : chat \in Chats}

\* the bodies of the requests: not an update, an update without a message,
\* an update with a message
Bodies ==
  {[json |-> FALSE, message |-> None], [json |-> TRUE, message |-> None]}
    \cup {[json |-> TRUE, message |-> Some(m)] : m \in Messages}

\* the message of the request and what handle_telegram_message reads of it
message == webhook.body.message[1]

chat_id == message.chat_id

Command(c) == message.text # None /\ message.text[1][1] = c

HasArgument == Len(message.text[1]) > 1

\* the document analyses.insert_one is given
analysis_record ==
  IF message.upload
    THEN WithMetadata(server_record(chat_id, filename, result,
                                    "file_upload"), file_info)
    ELSE server_record(chat_id, filename, result, "command")

\* the document messages.insert_one is given
message_record ==
  [id |-> uuid4, chat_id |-> chat_id, username |-> username[chat_id],
   text |-> message.text, timestamp |-> utcnow,
   message_type |-> IF message.text # None THEN "text" ELSE "media"]

\* the statement that follows format_analysis_response: the reply
after_response_reply == "reply"

\* the statement that follows format_analysis_response: the insert
after_response == "insert"

InitWebhook ==
  /\ webhook \in {[bot |-> b, requests |-> 0, received |-> 0, secret |-> "",
                    body |-> [json |-> FALSE, message |-> None],
                    parsed |-> FALSE, exception |-> None, status |-> None] :
                     b \in BOOLEAN}
  /\ messages = <<>>
  /\ analyses = <<>>
  /\ sent = <<>>
  /\ clock = 0
  /\ program = "server"
  /\ patterns = CategoryTables
  /\ calls = <<>>
  /\ filename = <<>>
  /\ file_info = NoFileInfo
  /\ result = NoResult
  /\ response = NoResult
  /\ pc = "idle"

\* filename, analysis, file_info and response of handle_telegram_message
locals == <<filename, result, file_info, response>>

\* POST /api/webhook/{secret} comes in
Post ==
  /\ pc = "idle"
  /\ webhook.requests < MaxRequests
  /\ \E secret \in Secrets : \E body \in Bodies :
       webhook' = [webhook EXCEPT !.requests = @ + 1, !.received = clock + 1,
                                  !.secret = secret, !.body = body,
                                  !.parsed = FALSE, !.exception = None,
                                  !.status = None]
  /\ clock' = clock + 1
  /\ filename' = <<>>
  /\ file_info' = NoFileInfo
  /\ result' = NoResult
  /\ response' = NoResult
  /\ pc' = "telegram_webhook"
  /\ UNCHANGED <<program, analyses, sent, shared, messages>>

\* the endpoint answers with the status and is done with the request
Answer(status, parsed) ==
  /\ webhook' = [webhook EXCEPT !.status = Some(status), !.parsed = parsed]
  /\ pc' = "idle"
  /\ UNCHANGED <<locals, service, shared, messages>>

\* raise HTTPException(status_code=403, ...)
Forbidden ==
  /\ pc = "telegram_webhook"
  /\ ~Authorized(webhook.secret)
  /\ Answer(403, FALSE)

\* request.json() and Update.de_json: the body is no update (the except
\* clause answers 500), the update has no message, or it has one
ParseUpdate ==
  /\ pc = "telegram_webhook"
  /\ Authorized(webhook.secret)
  /\ IF ~webhook.body.json THEN Answer(500, FALSE)
     ELSE IF webhook.body.message = None THEN Answer(200, TRUE)
     ELSE /\ webhook' = [webhook EXCEPT !.parsed = TRUE]
          /\ pc' = "handle_telegram_message"
          /\ UNCHANGED <<locals, service, shared, messages>>

\* if not bot: return
NoBot ==
  /\ pc = "handle_telegram_message"
  /\ ~webhook.bot
  /\ pc' = "return"
  /\ UNCHANGED <<locals, service, shared, endpoint>>

\* an awaited call of the try block raises: the except clause is next
Raise(call) ==
  /\ webhook' = [webhook EXCEPT !.exception = Some(call)]
  /\ pc' = "except"

\* await app.mongodb.messages.insert_one({...})
LogMessage ==
  /\ pc = "handle_telegram_message"
  /\ webhook.bot
  /\ \/ /\ messages' = Append(messages, message_record)
        /\ clock' = clock + 1
        /\ pc' = "commands"
        /\ UNCHANGED webhook
     \/ /\ Raise("messages.insert_one")
        /\ UNCHANGED <<messages, clock>>
  /\ UNCHANGED <<locals, program, analyses, sent, shared>>

\* await bot.send_message(chat_id=chat_id, ...) in the try block
Send(kind, body) ==
  /\ \/ /\ sent' = Append(sent, Reply(chat_id, kind, body))
        /\ pc' = "return"
        /\ UNCHANGED webhook
     \/ /\ Raise("send_message")
        /\ UNCHANGED sent
  /\ UNCHANGED <<locals, program, analyses, clock, shared, messages>>

\* message.text.startswith('/start')
Start ==
  /\ pc = "commands"
  /\ Command("/start")
  /\ Send("welcome", <<>>)

\* '/analyze' without a filename
Usage ==
  /\ pc = "commands"
  /\ Command("/analyze")
  /\ ~HasArgument
  /\ Send("usage", <<>>)

\* get_user_stats, whose except clause returns a text of its own
StatsCommand ==
  /\ pc = "commands"
  /\ Command("/stats")
  /\ \E stats \in {[total |-> count_documents(chat_id), format_stats |-> l,
                      no_analyses_yet |-> FALSE] : l \in aggregate(chat_id)}
                     \cup {[error |-> "couldn't retrieve your stats"]} :
       Send("stats", stats)

\* a text that starts with no command, or a message without text and file
NotHandled ==
  /\ pc = "commands"
  /\ IF message.text # None
       THEN ~Command("/start") /\ ~Command("/analyze") /\ ~Command("/stats")
       ELSE ~message.upload
  /\ pc' = "return"
  /\ UNCHANGED <<locals, service, shared, endpoint>>

\* analysis = analyzer.analyze_filename(f);
\* response = format_analysis_response(analysis, info)
Classify(f, info) ==
  /\ \E analysis \in {analyzer[f]} :
       /\ result' = analysis
       /\ response' = format_analysis_response(analysis, info)
  /\ filename' = f
  /\ file_info' = info
  /\ pc' = after_response
  /\ UNCHANGED <<service, shared, endpoint>>

\* '/analyze f'
AnalyzeCommand ==
  /\ pc = "commands"
  /\ Command("/analyze")
  /\ HasArgument
  /\ Classify(message.text[1][2], NoFileInfo)

\* a document, a video or an audio
AnalyzeFile ==
  /\ pc = "commands"
  /\ message.text = None
  /\ message.upload
  /\ Classify(file_name_or_default(message.file_name), UploadInfo)

\* await app.mongodb.analyses.insert_one({...})
InsertAnalysis ==
  /\ pc = "insert"
  /\ \/ /\ analyses' = Append(analyses, analysis_record)
        /\ clock' = clock + 1
        /\ pc' = "reply"
        /\ UNCHANGED webhook
     \/ /\ Raise("analyses.insert_one")
        /\ UNCHANGED <<analyses, clock>>
  /\ UNCHANGED <<locals, program, sent, shared, messages>>

\* await bot.send_message(chat_id=chat_id, text=response, ...)
SendAnalysis ==
  /\ pc = "reply"
  /\ Send("analysis", response.value)

\* the except clause: the apology is sent, or send_message raises again and
\* the exception leaves handle_telegram_message
Apologize ==
  /\ pc = "except"
  /\ \/ /\ sent' = Append(sent, Reply(chat_id, "apology", <<>>))
        /\ pc' = "return"
     \/ /\ sent' = sent
        /\ pc' = "raise"
  /\ UNCHANGED <<locals, program, analyses, clock, shared, endpoint>>

\* return {"status": "ok"}, or the except clause of telegram_webhook
Respond ==
  /\ pc \in {"return", "raise"}
  /\ Answer(IF pc = "return" THEN 200 ELSE 500, TRUE)

NextWebhook ==
  \/ Post
  \/ Forbidden
  \/ ParseUpdate
  \/ NoBot
  \/ LogMessage
  \/ Start
  \/ Usage
  \/ StatsCommand
  \/ NotHandled
  \/ AnalyzeCommand
  \/ AnalyzeFile
  \/ InsertAnalysis
  \/ SendAnalysis
  \/ Apologize
  \/ Respond

SpecWebhook == InitWebhook /\ [][NextWebhook]_vars

SpecTables == InitTables /\ [][Next]_vars

SpecFormat == InitFormat /\ [][Next]_vars

SpecYear == InitYear /\ [][Next]_vars

SpecEpisode == InitEpisode /\ [][Next]_vars

SpecHdr == InitHdr /\ [][Next]_vars

SpecExamples == InitExamples /\ [][Next]_vars

SpecWords == InitWords /\ [][Next]_vars

SpecReport == InitReport /\ [][NextReport]_vars

SpecSize == InitSize /\ [][NextSize]_vars

(***************************************************************************)
(* What the claims are stated with.                                        *)
(***************************************************************************)
Done == pc = "done"

Lowered == lower(filename)

\* the positions of the rules of a table whose pattern matches the
\* lower-cased filename s
Matching(table, s) == {i \in 1..Len(table) : RuleMatches(table[i], s)}

\* the label the result holds for category k, as a set: empty when file_type
\* is "Unknown" or the field is null
Selected(r, k) ==
  IF k = 1 THEN (IF r.file_type = "Unknown" THEN {} ELSE {r.file_type})
  ELSE LET v == <<r.quality, r.resolution, r.codec, r.audio_codec,
                  r.language, r.source>>[k - 1]
       IN  {v[n] : n \in 1..Len(v)}

\* the first-match result over the table of category k alone
OwnFirst(k, s) ==
  LET t == CategoryTables[k]
      M == Matching(t, s)
  IN  IF M = {} THEN {} ELSE {t[Leftmost(M)].label}

Labels(table) == {table[i].label : i \in 1..Len(table)}

IsOptionalLabel(v, table) == v = None \/ \E l \in Labels(table) : v = Some(l)

IsOptionalString(v) ==
  /\ Len(v) <= 1
  /\ Len(v) = 1 => v[1] \in Seq(Alphabet)

IsDigitString(s) == \A i \in 1..Len(s) : IsDigit(s[i])

\* C1: in every category, the label of the earliest rule, in table order,
\* whose pattern matches the lower-cased filename is the one selected, and
\* the label of a later matching rule never is.
C1_FirstMatchWins ==
  Done =>
    LET s == Lowered
    IN  \A k \in Categories :
          LET t == CategoryTables[k]
              M == Matching(t, s)
              got == Selected(result, k)
          IN  M # {} =>
                /\ got = {t[Leftmost(M)].label}
                /\ \A j \in M : j > Leftmost(M) => t[j].label \notin got

\* "cam-rip": the rules CAM and CAMRip both match, CAM is selected
C1_Witness ==
  /\ Done
  /\ Matching(quality_patterns, Lowered) = {1, 2}
  /\ result.quality = Some("CAM")

\* C2: analyze_filename returns, for every filename, a fully populated
\* result: file_type is "Unknown" or a format label, each category field is
\* null or a label of its own table, and format_details holds exactly the
\* four boolean flags, year and season_episode (nullable strings).
C2_FullyPopulated ==
  Done =>
    /\ DOMAIN result =
         {"filename", "file_type", "quality", "resolution", "codec",
          "audio_codec", "language", "source", "format_details"}
    /\ result.filename = filename
    /\ result.file_type \in {"Unknown"} \cup Labels(format_patterns)
    /\ IsOptionalLabel(result.quality, quality_patterns)
    /\ IsOptionalLabel(result.resolution, resolution_patterns)
    /\ IsOptionalLabel(result.codec, video_codec_patterns)
    /\ IsOptionalLabel(result.audio_codec, audio_codec_patterns)
    /\ IsOptionalLabel(result.language, language_patterns)
    /\ IsOptionalLabel(result.source, source_patterns)
    /\ DOMAIN result.format_details =
         {"has_subtitles", "has_multiple_audio", "is_3d", "is_hdr", "year",
          "season_episode"}
    /\ result.format_details.has_subtitles \in BOOLEAN
    /\ result.format_details.has_multiple_audio \in BOOLEAN
    /\ result.format_details.is_3d \in BOOLEAN
    /\ result.format_details.is_hdr \in BOOLEAN
    /\ IsOptionalString(result.format_details.year)
    /\ IsOptionalString(result.format_details.season_episode)

\* a result with a format, a missing category and an episode
C2_Witness ==
  /\ Done
  /\ result.file_type = "MKV"
  /\ result.quality = None
  /\ result.format_details.season_episode # None

\* the filename no rule and no auxiliary pattern matches
PatternFree(f) ==
  LET s == lower(f)
  IN  /\ \A k \in Categories : \A i \in 1..Len(CategoryTables[k]) :
           ~RuleMatches(CategoryTables[k][i], s)
      /\ ~WordSearch(subtitle_words \cup multi_audio_words
                       \cup three_d_words \cup hdr_words, {}, s)
      /\ \A i \in 1..Len(f) : ~YearAt(f, i)
      /\ \A i \in 1..Len(f) : \A k \in 1..Len(se_patterns) :
           MatchFamily(se_patterns[k], s, i) = <<>>

random_text_no_extension ==
  <<"r", "a", "n", "d", "o", "m", "_", "t", "e", "x", "t", "_", "n", "o",
    "_", "e", "x", "t", "e", "n", "s", "i", "o", "n">>

AllNull(r) ==
  /\ r.file_type = "Unknown"
  /\ \A k \in Categories : Selected(r, k) = {}
  /\ r.format_details =
       [has_subtitles |-> FALSE, has_multiple_audio |-> FALSE,
        is_3d |-> FALSE, is_hdr |-> FALSE, year |-> None,
        season_episode |-> None]

\* C3: for the empty string, for "random_text_no_extension" and for any
\* filename that no rule and no auxiliary pattern matches, the result has
\* file_type "Unknown", every category field null, every flag false and
\* year and season_episode null.
C3_PatternFreeIsUnknown ==
  Done /\ (\/ filename = <<>>
           \/ filename = random_text_no_extension
           \/ PatternFree(filename))
    => AllNull(result)

C3_Witness ==
  /\ Done
  /\ filename = random_text_no_extension
  /\ AllNull(result)

\* the string s ends with the string e
EndsWith(s, e) ==
  Len(e) <= Len(s) /\ SubSeq(s, Len(s) - Len(e) + 1, Len(s)) = e

\* C4 (as claimed): file_type is label L exactly when the lower-cased
\* filename ends with one of L's extensions, and "Unknown" otherwise; the
\* other categories are set by a matching token at any position.
C4_FormatBySuffixOnly ==
  Done =>
    /\ \A i \in 1..Len(format_patterns) :
         result.file_type = format_patterns[i].label
           <=> \E e \in format_patterns[i].alts : EndsWith(Lowered, e)
    /\ result.file_type = "Unknown"
         <=> \A i \in 1..Len(format_patterns) :
               \A e \in format_patterns[i].alts : ~EndsWith(Lowered, e)
    /\ \A k \in Categories \ {1} :
         Selected(result, k) # {} <=> Matching(CategoryTables[k], Lowered) # {}

\* C5: the label of every category is the first-match result over that
\* category's table alone, whatever the other categories selected: when
\* rules of two categories match, both fields are set in the same result.
C5_CategoriesIndependent ==
  Done =>
    LET s == Lowered
    IN  \A k \in Categories : Selected(result, k) = OwnFirst(k, s)

\* the token "uhd", matched by a rule of quality and a rule of resolution
C5_Witness ==
  /\ Done
  /\ Lowered = <<".", "u", "h", "d">>
  /\ result.quality = Some("UHD")
  /\ result.resolution = Some("4K")

\* a 19xx/20xx 4-digit run at position i, whatever surrounds it
RunAt(s, i) ==
  /\ i + 3 <= Len(s)
  /\ SubSeq(s, i, i + 1) \in {<<"1", "9">>, <<"2", "0">>}
  /\ IsDigit(s[i + 2])
  /\ IsDigit(s[i + 3])

Runs(s) == {i \in 1..Len(s) : RunAt(s, i)}

\* the character before position i and the one after position i + 3 are
\* not word characters (letters, digits, underscore), where there are any
Delimited(s, i) ==
  /\ i > 1 => ~IsWordChar(s[i - 1])
  /\ i + 4 <= Len(s) => ~IsWordChar(s[i + 4])

DelimitedRuns(s) == {i \in Runs(s) : Delimited(s, i)}

YearText(s, i) == Some(SubSeq(s, i, i + 3))

\* C6 (as claimed): in a filename that holds two or more 19xx/20xx 4-digit
\* runs, year is the leftmost of them, by position.
C6_YearIsLeftmostRun ==
  Done /\ Cardinality(Runs(filename)) >= 2
    => result.format_details.year = YearText(filename, Leftmost(Runs(filename)))

\* C6 (amended): year is the leftmost, by position and whatever its
\* magnitude, of the 19xx/20xx 4-digit runs that no word character adjoins.
C6_YearIsLeftmostDelimitedRun ==
  Done =>
    \A i \in DelimitedRuns(filename) :
      (\A j \in DelimitedRuns(filename) : i <= j)
        => result.format_details.year = YearText(filename, i)

\* two delimited years in one filename, the greater one first
C6_Witness ==
  /\ Done
  /\ \E i, j \in DelimitedRuns(filename) :
       /\ i < j
       /\ SubSeq(filename, i, i + 3) = <<"2", "0", "2", "0">>
       /\ SubSeq(filename, j, j + 3) = <<"1", "9", "9", "9">>
  /\ result.format_details.year = Some(<<"2", "0", "2", "0">>)

\* C7 (as claimed): year is non-null exactly when the filename holds a
\* 19xx/20xx 4-digit run, whatever characters surround it, and is then one
\* of these runs, a 4-digit string from 1900 to 2099.
C7_YearWhateverSurrounds ==
  Done =>
    /\ result.format_details.year # None <=> Runs(filename) # {}
    /\ result.format_details.year # None
         => \E i \in Runs(filename) :
              result.format_details.year = YearText(filename, i)

\* C7 (amended): year is non-null exactly when the filename holds a
\* 19xx/20xx 4-digit run with no word character (letter, digit, underscore)
\* right before or right after it, and is then such a run: 4 digits, the
\* first two "19" or "20".
C7_YearNeedsWordBoundaries ==
  Done =>
    /\ result.format_details.year # None <=> DelimitedRuns(filename) # {}
    /\ result.format_details.year # None
         => /\ \E i \in DelimitedRuns(filename) :
                 result.format_details.year = YearText(filename, i)
            /\ Len(result.format_details.year[1]) = 4
            /\ IsDigitString(result.format_details.year[1])
            /\ SubSeq(result.format_details.year[1], 1, 2)
                 \in {<<"1", "9">>, <<"2", "0">>}

\* a run that adjoins a word character standing before a delimited run,
\* and the delimited run in the result
C7_Witness ==
  /\ Done
  /\ \E i \in Runs(filename) \ DelimitedRuns(filename) :
       \E j \in DelimitedRuns(filename) :
         /\ i < j
         /\ result.format_details.year = YearText(filename, j)

\* the pattern family has a match somewhere in the lower-cased filename
Occurs(family) == SearchFamily(family, Lowered) # <<>>

\* where the leftmost match of the family starts
FirstAt(family) ==
  Leftmost({i \in 1..Len(Lowered) : MatchFamily(family, Lowered, i) # <<>>})

\* S<season>E<episode> from the groups of the leftmost match of the family
Rendered(family) ==
  LET g == SearchFamily(family, Lowered)
  IN  Some(<<"S">> \o zfill(g[1], 2) \o <<"E">> \o zfill(g[2], 2))

\* C8: the first of the families S<num>E<num>, "season <num> episode <num>",
\* <num>x<num> that matches anywhere decides season_episode; an S<num>E<num>
\* substring beats a <num>x<num> substring wherever the two stand.
C8_FamilyPriority ==
  Done =>
    /\ Occurs("SE") => result.format_details.season_episode = Rendered("SE")
    /\ ~Occurs("SE") /\ Occurs("season")
         => result.format_details.season_episode = Rendered("season")
    /\ ~Occurs("SE") /\ ~Occurs("season") /\ Occurs("NxN")
         => result.format_details.season_episode = Rendered("NxN")
    /\ ~Occurs("SE") /\ ~Occurs("season") /\ ~Occurs("NxN")
         => result.format_details.season_episode = None

\* a <num>x<num> substring standing before an S<num>E<num> substring with
\* other numbers, and the S<num>E<num> numbers in the result
C8_Witness ==
  /\ Done
  /\ Occurs("SE")
  /\ Occurs("NxN")
  /\ FirstAt("NxN") < FirstAt("SE")
  /\ Rendered("NxN") # Rendered("SE")
  /\ result.format_details.season_episode = Rendered("SE")

\* the characters of s from position from to position to are digits
DigitsFromTo(s, from, to) == \A i \in from..to : IsDigit(s[i])

\* C9 (as claimed): season_episode is null or S, exactly two digits, E,
\* exactly two digits.
C9_ExactlyTwoDigits ==
  Done /\ result.format_details.season_episode # None =>
    LET t == result.format_details.season_episode[1]
    IN  /\ Len(t) = 6
        /\ t[1] = "S"
        /\ DigitsFromTo(t, 2, 3)
        /\ t[4] = "E"
        /\ DigitsFromTo(t, 5, 6)

\* C9 (amended): season_episode is null or S, two or more digits, E, two or
\* more digits: each number is zero-padded to at least two digits.
C9_AtLeastTwoDigits ==
  Done /\ result.format_details.season_episode # None =>
    LET t == result.format_details.season_episode[1]
    IN  \E e \in 4..(Len(t) - 2) :
          /\ t[1] = "S"
          /\ DigitsFromTo(t, 2, e - 1)
          /\ t[e] = "E"
          /\ DigitsFromTo(t, e + 1, Len(t))

\* a one-digit season padded, beside an episode of three digits kept whole
C9_Witness ==
  /\ Done
  /\ result.format_details.season_episode # None
  /\ LET t == result.format_details.season_episode[1]
     IN  /\ Len(t) = 7
         /\ SubSeq(t, 1, 4) = <<"S", "0", "1", "E">>

\* C10 (as claimed): is_hdr is true exactly when the lower-cased filename
\* holds the whole word "hdr", the whole word "hdr10", or "dolby.vision"
\* written with a dot.
C10_HdrLiteralDot ==
  Done =>
    result.format_details.is_hdr =
      WordSearch({<<"h", "d", "r">>, <<"h", "d", "r", "1", "0">>,
                  <<"d", "o", "l", "b", "y", ".", "v", "i", "s", "i", "o",
                    "n">>}, {}, Lowered)

Movie == Flatten(MovieTokens)

\* C12: analyze_filename("Movie.2023.1080p.BluRay.x264.mkv") returns file_type
\* MKV, quality BluRay, resolution 1080p, video codec H.264, year "2023",
\* season_episode null, and audio codec, language and source null.
C12_MovieExample ==
  (Done /\ filename = Movie) =>
    /\ result.file_type = "MKV"
    /\ result.quality = Some("BluRay")
    /\ result.resolution = Some("1080p")
    /\ result.codec = Some("H.264")
    /\ result.format_details.year = Some(<<"2", "0", "2", "3">>)
    /\ result.format_details.season_episode = None
    /\ result.audio_codec = None
    /\ result.language = None
    /\ result.source = None

C12_Witness ==
  /\ Done
  /\ filename = Movie
  /\ result.quality = Some("BluRay")

Show == Flatten(ShowTokens)

\* C13: analyze_filename("Show.S02E05.720p.WEB-DL.AAC.mp4") returns file_type
\* MP4, quality WEB-DL (not WEB and not TS), resolution 720p, audio codec AAC
\* and season_episode "S02E05".
C13_ShowExample ==
  (Done /\ filename = Show) =>
    /\ result.file_type = "MP4"
    /\ result.quality = Some("WEB-DL")
    /\ result.quality \notin {Some("WEB"), Some("TS")}
    /\ result.resolution = Some("720p")
    /\ result.audio_codec = Some("AAC")
    /\ result.format_details.season_episode =
         Some(<<"S", "0", "2", "E", "0", "5">>)

\* WEB-DL and WEB both match the name, and WEB-DL is the one returned
C13_Witness ==
  /\ Done
  /\ filename = Show
  /\ Cardinality(Matching(quality_patterns, Lowered)) = 2
  /\ result.quality = Some("WEB-DL")

\* the rules of category k that are written with the word w
WrittenWith(k, w) ==
  {j \in 1..Len(CategoryTables[k]) : w \in CategoryTables[k][j].alts}

\* C20: no rule is fully shadowed: every rule of every table has a word
\* that, handed in as the filename, is given the label of that rule, so when
\* the filename is a word of a rule and is given the label of an earlier
\* rule, another word of the same rule is given the rule's own label.
C20_NoRuleShadowed ==
  Done =>
    \A k \in Categories : \A j \in WrittenWith(k, filename) :
      LET rule == CategoryTables[k][j]
      IN  \/ Selected(result, k) = {rule.label}
          \/ \E w \in rule.alts \ {filename} :
                OwnFirst(k, lower(w)) = {rule.label}

\* C20, what the code does: no filename is ever given the label CAMRip
C20_CAMRipNeverReturned == Done => result.quality # Some("CAMRip")

(***************************************************************************)
(* The report.                                                             *)
(***************************************************************************)
Reported == pc \in {"rendered", "rendered again"}

\* the first piece of every line that is not blank, in the order of the report
ReportOrder ==
  <<"(clapper) **File Analysis Results**", "(folder) **Filename:** ",
    "(disk) **File Size:** ", "(clipboard) **MIME Type:** ",
    "**(magnifier) Detected Metadata:**", "* **Format:** ",
    "* **Quality:** ", "* **Resolution:** (tv) ", "* **Video Codec:** (film) ",
    "* **Audio Codec:** (speaker) ", "* **Language:** (globe) ",
    "* **Source:** (tv) ", "* **Year:** (calendar) ", "* **Episode:** (tv) ",
    "* **Subtitles:** (speech) Yes", "* **Multi-Audio:** (notes) Yes",
    "* **3D:** (glasses) Yes", "* **HDR:** (sparkles) Yes",
    "_Analysis completed successfully!_ (check)">>

Rank(piece) == CHOOSE k \in 1..Len(ReportOrder) : ReportOrder[k] = piece

\* the positions of the lines of the report that begin with ReportOrder[k]
LinesOf(lines, k) ==
  {i \in 1..Len(lines) : lines[i] # <<>> /\ lines[i][1] = ReportOrder[k]}

\* the report has the line ReportOrder[k] once, and it ends with the pieces
\* of text, when present holds, and does not have it otherwise
HasExactlyWhen(lines, k, present, text) ==
  IF present
    THEN \E i \in 1..Len(lines) :
           /\ LinesOf(lines, k) = {i}
           /\ Len(lines[i]) >= Len(text)
           /\ SubSeq(lines[i], Len(lines[i]) - Len(text) + 1, Len(lines[i]))
                = text
    ELSE LinesOf(lines, k) = {}

\* the value of an Optional field as the pieces of text of its line
Shown(v) == IF v = None THEN <<>> ELSE <<v[1]>>

ShownText(v) == IF v = None THEN <<>> ELSE v[1]

\* C14: for every AnalysisResult and optional FileMetadata the report has,
\* in this fixed order: the header and the filename; a file-size line exactly
\* when file_info is given, and a MIME line only when its mime_type is not
\* null; a line for each of quality, resolution, video codec, audio codec,
\* language and source exactly when the field is not null; a line for each
\* of year, episode, subtitles, multi-audio, 3D and HDR exactly when the
\* detail is not null or true; the success marker as the last line.
C14_ReportLines ==
  (Reported /\ (file_info.none \/ file_info.attrs = FileAttributes)) =>
    /\ response.exception = None
    /\ LET lines == response.value
           d == result.format_details
       IN  /\ lines[1] = <<ReportOrder[1]>>
           /\ HasExactlyWhen(lines, 2, TRUE, filename \o <<CodeMark>>)
           /\ LinesOf(lines, 2) = {3}
           /\ HasExactlyWhen(lines, 3, ~file_info.none,
                             format_file_size(file_info.file_size))
           /\ LinesOf(lines, 4) # {} => file_info.mime_type # None
           /\ HasExactlyWhen(lines, 7, result.quality # None,
                             Shown(result.quality))
           /\ HasExactlyWhen(lines, 8, result.resolution # None,
                             Shown(result.resolution))
           /\ HasExactlyWhen(lines, 9, result.codec # None,
                             Shown(result.codec))
           /\ HasExactlyWhen(lines, 10, result.audio_codec # None,
                             Shown(result.audio_codec))
           /\ HasExactlyWhen(lines, 11, result.language # None,
                             Shown(result.language))
           /\ HasExactlyWhen(lines, 12, result.source # None,
                             Shown(result.source))
           /\ HasExactlyWhen(lines, 13, d.year # None, ShownText(d.year))
           /\ HasExactlyWhen(lines, 14, d.season_episode # None,
                             ShownText(d.season_episode))
           /\ HasExactlyWhen(lines, 15, d.has_subtitles, <<>>)
           /\ HasExactlyWhen(lines, 16, d.has_multiple_audio, <<>>)
           /\ HasExactlyWhen(lines, 17, d.is_3d, <<>>)
           /\ HasExactlyWhen(lines, 18, d.is_hdr, <<>>)
           /\ lines[Len(lines)] = <<ReportOrder[19]>>
           /\ \A i, j \in 1..Len(lines) :
                (i < j /\ lines[i] # <<>> /\ lines[j] # <<>>) =>
                  Rank(lines[i][1]) < Rank(lines[j][1])

\* "Movie.cam.1080p.x264.2019.subs.3d.mkv" with a FileMetadata of 1536
\* bytes and a MIME type: a report of sixteen lines
C14_Witness ==
  /\ Reported
  /\ filename = Flatten(ReportTokens)
  /\ file_info = FileMetadata(Some(<<1, 512>>), Some("video/mp4"))
  /\ Len(response.value) = 16

Sized == pc = "sized"

AllUnits == units \o <<last_unit>>

\* the unit a count of d base-1024 digits stops at: the first one at which
\* the value is below 1024, PB when there is none
UnitFor(d) == AllUnits[IF d < Len(AllUnits) THEN d ELSE Len(AllUnits)]

\* text is a number with one decimal place, a space and the unit
IsNumberWith(text, unit) ==
  /\ Len(text) >= 5
  /\ text[Len(text)] = unit
  /\ text[Len(text) - 1] = " "
  /\ IsDigit(text[Len(text) - 2])
  /\ text[Len(text) - 3] = "."
  /\ \A i \in 1..Len(text) - 4 : IsDigit(text[i])

\* C16: format_file_size scales a known byte count by 1024 through B, KB,
\* MB, GB, TB to PB, stops at the first unit where the value is below 1024
\* and prints one decimal place (1536 gives "1.5 KB"); it returns "Unknown"
\* only when the size is null, so that every known size, 0 bytes included,
\* is rendered as a number with a unit.
C16_UnknownOnlyForNull ==
  Sized =>
    LET size_bytes == file_info.file_size
        text == response.value
    IN  /\ text = Unknown <=> size_bytes = None
        /\ size_bytes # None =>
             IsNumberWith(text, UnitFor(Len(size_bytes[1])))
        /\ size_bytes = Some(<<1, 512>>) => text = <<"1", ".", "5", " ", "KB">>

\* C16, what the code does: "Unknown" for null and for 0 bytes, a number
\* with the unit of the claim for every other count
C16_UnknownForNullAndZero ==
  Sized =>
    LET size_bytes == file_info.file_size
        text == response.value
    IN  /\ text = Unknown <=> size_bytes \in {None, Some(<<0>>)}
        /\ size_bytes \notin {None, Some(<<0>>)} =>
             IsNumberWith(text, UnitFor(Len(size_bytes[1])))
        /\ size_bytes = Some(<<1, 512>>) => text = <<"1", ".", "5", " ", "KB">>

\* C17: format_analysis_response never raises because of file_info: a null
\* file_info, and one of the wrong shape (a non-empty value without the
\* attributes file_size and mime_type), is treated as no file metadata, and
\* the report comes without the file-size and MIME lines.
C17_WrongShapeIsNoMetadata ==
  Reported =>
    /\ response.exception = None
    /\ file_info.attrs # FileAttributes =>
         /\ LinesOf(response.value, 3) = {}
         /\ LinesOf(response.value, 4) = {}

(***************************************************************************)
(* The analyses collection.                                                *)
(***************************************************************************)
\* the source tag that names a path
SourceOf(path) ==
  CASE path = "/analyze" -> "command"
    [] path = "upload" -> "file_upload"
    [] path = "text" -> "text_filename"

Inserted == pc \in {"/analyze", "upload", "text"}

\* the fields of a document other than the username
HasTheOtherFields(doc) ==
  /\ {"id", "chat_id", "filename", "analysis", "timestamp", "source"}
       \subseteq DOMAIN doc
  /\ doc.chat_id \in Chats
  /\ doc.filename \in AnalysedNames
  /\ doc.analysis = analyze_filename(doc.filename)
  /\ doc.timestamp.zone = "UTC"
  /\ doc.source \in {"command", "file_upload", "text_filename"}

\* C18: every record written to analyses, by any handler of the webhook
\* server and of both polling bots and after any sequence of messages, has
\* a generated identifier, the chat identifier, the username of the
\* requester, the raw filename, the serialized AnalysisResult, a UTC
\* timestamp and a source tag that is one of "command", "file_upload",
\* "text_filename" and names the path that produced the record.
C18_RecordFields ==
  /\ \A i \in 1..Len(analyses) :
       /\ HasTheOtherFields(analyses[i])
       /\ "username" \in DOMAIN analyses[i]
       /\ analyses[i].username = username[analyses[i].chat_id]
       /\ \A j \in 1..Len(analyses) :
            i # j => analyses[i].id # analyses[j].id
  /\ Inserted =>
       /\ analyses # <<>>
       /\ analyses[Len(analyses)].source = SourceOf(pc)
       /\ analyses[Len(analyses)].filename = filename

\* C18, what the code does: the records of the polling bots have all the
\* fields, those of the webhook server all but the username
C18_UsernameOnlyFromPollingBots ==
  /\ \A i \in 1..Len(analyses) :
       /\ HasTheOtherFields(analyses[i])
       /\ "username" \in DOMAIN analyses[i] <=> program \in PollingBots
       /\ "username" \in DOMAIN analyses[i] =>
            analyses[i].username = username[analyses[i].chat_id]
       /\ \A j \in 1..Len(analyses) :
            i # j => analyses[i].id # analyses[j].id
  /\ Inserted =>
       /\ analyses # <<>>
       /\ analyses[Len(analyses)].source = SourceOf(pc)
       /\ analyses[Len(analyses)].filename = filename

(***************************************************************************)
(* The /stats reply.                                                       *)
(***************************************************************************)
\* the positions of the /stats replies sent so far
StatsReplies == {n \in 1..Len(sent) : sent[n].kind = "stats"}

\* the records of the chat of reply n that were stored when it was made
StoredFor(n) ==
  {i \in 1..Len(analyses) :
     /\ analyses[i].chat_id = sent[n].chat_id
     /\ analyses[i].timestamp.time < sent[n].time}

TypeCount(n, type) ==
  Cardinality({i \in StoredFor(n) : analyses[i].analysis.file_type = type})

\* reply n has the total of its chat and lists at most five of its file
\* types, each once and with its count, in non-increasing order of count
TotalAndCounts(n) ==
  LET stats == sent[n].body.format_stats
  IN  /\ sent[n].body.total = Cardinality(StoredFor(n))
      /\ Len(stats) <= 5
      /\ Len(stats) =
           (IF Cardinality({analyses[i].analysis.file_type : i \in StoredFor(n)}) < 5
              THEN Cardinality({analyses[i].analysis.file_type : i \in StoredFor(n)})
              ELSE 5)
      /\ \A k \in 1..Len(stats) :
           /\ stats[k].count = TypeCount(n, stats[k].file_type)
           /\ stats[k].count > 0
      /\ \A k, l \in 1..Len(stats) :
           k < l => /\ stats[k].count >= stats[l].count
                    /\ stats[k].file_type # stats[l].file_type

\* C19: after any sequence of stored analyses the /stats reply of a chat
\* has a total equal to the number of records with its chat_id, and lists at
\* most five file_type values of the chat in non-increasing order of their
\* counts, each with its exact count; the same stored records always give
\* the same list, ties included.
C19_StatsSameListForSameRecords ==
  /\ \A n \in StatsReplies : TotalAndCounts(n)
  /\ \A n, m \in StatsReplies :
       (sent[n].chat_id = sent[m].chat_id /\ StoredFor(n) = StoredFor(m)) =>
         sent[n].body.format_stats = sent[m].body.format_stats
  /\ \A n \in StatsReplies :
       \* while the chat has stored nothing more, no other list can be sent
       StoredFor(n) = Matched(sent[n].chat_id) =>
         aggregate(sent[n].chat_id) = {sent[n].body.format_stats}

\* C19, what the code does: the total, the counts and their order are as
\* claimed in every reply
C19_TotalAndCounts == \A n \in StatsReplies : TotalAndCounts(n)

(***************************************************************************)
(* Concurrent callers.                                                     *)
(***************************************************************************)
\* what analyze_filename returns for each of the names when it runs alone
Alone == [f \in ConcurrentNames |-> analyze_filename(f)]

Returning(c) == calls[c].at = AtReturn

SameButFilename(r, q) ==
  /\ \A k \in Categories : r[fields[k]] = q[fields[k]]
  /\ r.format_details = q.format_details

\* every letter of f is an ASCII letter
IsAscii(f) == \A i \in 1..Len(f) : f[i] \notin {LongS, DotlessI}

\* C21: analyze_filename(f) and analyze_filename of f with any letters
\* changed in case agree on file_type, the six category labels, the four
\* flags, year and season_episode.
C21_CaseInsensitive ==
  Len(calls) = 2 => SameButFilename(calls[1].result, calls[2].result)

\* the two results agree when every letter of the filename is an ASCII
\* letter, and on the seven fields the tables set whatever the letters are
C21_AsciiCaseInsensitive ==
  Len(calls) = 2 =>
    /\ IsAscii(filename) =>
         SameButFilename(calls[1].result, calls[2].result)
    /\ \A k \in Categories :
         calls[1].result[fields[k]] = calls[2].result[fields[k]]

(***************************************************************************)
(* The webhook endpoint.                                                   *)
(***************************************************************************)
\* what the request in hand has written and sent: the documents and the
\* replies made since it came in
Logged ==
  {i \in DOMAIN messages : messages[i].timestamp.time >= webhook.received}

Recorded ==
  {i \in DOMAIN analyses : analyses[i].timestamp.time >= webhook.received}

Replies == {n \in DOMAIN sent : sent[n].time >= webhook.received}

RepliesOf(kind) == {n \in Replies : sent[n].kind = kind}

\* the positions inside handle_telegram_message
InHandler ==
  pc \in {"handle_telegram_message", "commands", "insert", "reply", "except",
          "return", "raise"}

\* C22: a request whose secret differs from WEBHOOK_SECRET is answered 403
\* before anything else: no update is parsed, no filename is classified,
\* nothing is written to messages or analyses and no message is sent; only
\* a request with the right secret reaches handle_telegram_message.
C22_WrongSecretRejectedFirst ==
  /\ (webhook.requests > 0 /\ webhook.secret # WEBHOOK_SECRET) =>
       /\ pc \in {"telegram_webhook", "idle"}
       /\ webhook.status = IF pc = "idle" THEN Some(403) ELSE None
       /\ ~webhook.parsed
       /\ result = NoResult
       /\ response = NoResult
       /\ Logged = {}
       /\ Recorded = {}
       /\ Replies = {}
  /\ InHandler => webhook.secret = WEBHOOK_SECRET

\* a request that carries '/analyze f' for a process with a bot has been
\* answered 403
C22_Witness ==
  /\ webhook.status = Some(403)
  /\ webhook.bot
  /\ webhook.body.message # None
  /\ Command("/analyze")
  /\ HasArgument

(***************************************************************************)
(* handle_telegram_message.                                                *)
(***************************************************************************)
\* the message is an /analyze command with an argument or a file
Classifiable ==
  /\ webhook.body.message # None
  /\ \/ Command("/analyze") /\ HasArgument
     \/ message.text = None /\ message.upload

\* an insert of the request in hand has raised
InsertFailed ==
  webhook.exception
    \in {Some("messages.insert_one"), Some("analyses.insert_one")}

\* handle_telegram_message has run to its end
Left == pc \in {"return", "raise"} \/ (pc = "idle" /\ webhook.status # None)

\* the analysis reply comes after the insert of the record of the analysis
ReplyAfterRecord ==
  \A n \in RepliesOf("analysis") :
    \E i \in Recorded :
      /\ analyses[i].timestamp.time < sent[n].time
      /\ analyses[i].chat_id = sent[n].chat_id
      /\ analyses[i].filename = filename
      /\ analyses[i].analysis = result

\* only a message that was classified has a record
RecordOnlyIfClassified ==
  webhook.requests > 0 =>
    /\ Cardinality(Recorded) <= 1
    /\ Recorded # {} => Classifiable /\ result # NoResult

\* C23 as stated: the analysis reply is sent only after the record of the
\* analysis was inserted; when the insert into messages or into analyses
\* fails the user is sent exactly one apology and never the analysis
\* reply; a message that was not classified has no record in analyses.
C23_ExactlyOneApology ==
  /\ ReplyAfterRecord
  /\ RecordOnlyIfClassified
  /\ (InsertFailed /\ Left) =>
       /\ RepliesOf("analysis") = {}
       /\ Cardinality(RepliesOf("apology")) = 1

\* the apology has been sent, or send_message has raised again
ApologySent == pc = "return" \/ (pc = "idle" /\ webhook.status = Some(200))

\* C23, amended: the analysis reply is sent only after the record of the
\* analysis was inserted; when the insert into messages or into analyses
\* fails the analysis reply is never sent and the user is sent one
\* apology, unless the sending of the apology raises too: then nothing is
\* sent and the endpoint answers 500; a message that was not classified
\* has no record in analyses.
C23_ApologyUnlessSendFails ==
  /\ ReplyAfterRecord
  /\ RecordOnlyIfClassified
  /\ (InsertFailed /\ Left) =>
       /\ RepliesOf("analysis") = {}
       /\ Cardinality(RepliesOf("apology")) = IF ApologySent THEN 1 ELSE 0
       /\ Replies = RepliesOf("apology")
       /\ (pc = "idle" /\ ~ApologySent) => webhook.status = Some(500)

\* the insert of the record of an analysis has raised, the apology has been
\* sent and the request is answered
C23_Witness ==
  /\ webhook.exception = Some("analyses.insert_one")
  /\ webhook.status = Some(200)
  /\ result # NoResult
  /\ Recorded = {}
  /\ Cardinality(RepliesOf("apology")) = 1

=============================================================================
